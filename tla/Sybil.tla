------------------------------- MODULE Sybil --------------------------------
(***************************************************************************)
(* How a newcomer is graded (auth/sybil): evaluateAntiSybil and its later  *)
(* companion calculateSybilScore, over the same five layers, and the list  *)
(* of registrations of a subnet that both keep in memory.  No handler of   *)
(* the worker asks for a grade; of this module's code the dashboard uses   *)
(* verifyTurnstileToken.                                                   *)
(*                                                                         *)
(* A value that may be missing is {} or {v}, and the first of several      *)
(* spellings of a field is that field.  Times are days.  An address is     *)
(* [kind, parts], its parts between dots or colons, "" between two colons; *)
(* an e-mail address is [user, domain], its domain the labels of it, none  *)
(* where nothing stands after an @.                                        *)
(***************************************************************************)
EXTENDS Integers, Sequences, FiniteSets

LOCAL INSTANCE Functions
LOCAL INSTANCE SequencesExt
LOCAL INSTANCE TLC

CONSTANTS
    DATACENTER_ASNS,
    DISPOSABLE_EMAIL_DOMAINS

BUILDER_MIN_ACCOUNT_AGE_DAYS == 30
BUILDER_MIN_PUBLIC_REPOS == 1
BUILDER_MIN_CONTRIBUTIONS == 5
SYBIL_MIN_ACCOUNT_AGE_DAYS == 30
SYBIL_MIN_ACTIVITY_REPOS == 5
SYBIL_MIN_ACTIVITY_CONTRIBUTIONS == 20
SYBIL_SCORE_BUILDER_THRESHOLD == 65
SYBIL_SCORE_PROBATIONARY_THRESHOLD == 40
SUBNET_VELOCITY_WINDOW == 30
MAX_REGISTRATIONS_PER_SUBNET == 1

AtLeast(a, b) == IF a >= b THEN a ELSE b
AtMost(a, b) == IF a <= b THEN a ELSE b

\* A ?? b
Or(a, b) == IF a # {} THEN a ELSE b

Get(a, default) == IF a = {} THEN default ELSE CHOOSE v \in a : TRUE

-----------------------------------------------------------------------------
(* The layers.                                                             *)

\* verifyTurnstileToken: the fixtures are answered here; any other token needs
\* the secret and the service's yes.
verifyTurnstileToken(token, hasSecret, serviceSaysYes) ==
    token \in {"ALWAYS_PASS", "VALID_FIXTURE"} \/ (token = "real" /\ hasSecret /\ serviceSaysYes)

\* extractSubnet: /24, or the first three parts of an IPv6 address that are
\* there, also where :: stands for others before them.
extractSubnet(ip) ==
    LET segments == SelectSeq(ip.parts, LAMBDA p : p # "") IN
    CASE ip.kind = "v4" -> [kind |-> "/24", of |-> SubSeq(ip.parts, 1, 3)]
      [] ip.kind = "v6" /\ Len(segments) >= 3 -> [kind |-> "/48", of |-> SubSeq(segments, 1, 3)]
      [] ip.kind = "v6" /\ Len(segments) < 3 -> [kind |-> "/48", of |-> ip.parts]
      [] OTHER -> [kind |-> "/24", of |-> ip.parts]

\* isDisposableEmail: a domain of the list or under one, and what is no address.
isDisposableEmail(email) ==
    \A e \in email :
        \/ e.domain = <<>>
        \/ e.domain \in DISPOSABLE_EMAIL_DOMAINS
        \/ \E i \in 2..Len(e.domain) - 1 :
               SubSeq(e.domain, i, Len(e.domain)) \in DISPOSABLE_EMAIL_DOMAINS

isDatacenterAsn(asn) == asn \cap DATACENTER_ASNS # {}

\* InMemorySubnetTracker: the times of registrations per subnet.
NoRegistrations == <<>>

Active(tracker, subnet, day) ==
    IF subnet \notin DOMAIN tracker THEN <<>>
    ELSE SelectSeq(tracker[subnet], LAMBDA t : t > day - SUBNET_VELOCITY_WINDOW)

getSubnetRegistrationCount(tracker, subnet, day) == Len(Active(tracker, subnet, day))

\* Wrong: the list is begun anew and the registration left out.
recordRegistrationReset(tracker, subnet, day) ==
    [s \in DOMAIN tracker \cup {subnet} |-> IF s = subnet THEN <<>> ELSE tracker[s]]

\* With what getSubnetRegistrationCount has dropped just before.
recordRegistration(tracker, subnet, day) ==
    [s \in DOMAIN tracker \cup {subnet} |->
        IF s = subnet THEN Append(Active(tracker, s, day), day) ELSE tracker[s]]

\* The score decides against a newcomer; for the better tier the gates must
\* be passed as well.
TierOf(turnstileValid, isDisposable, score, gates) ==
    CASE ~turnstileValid \/ isDisposable \/ score < SYBIL_SCORE_PROBATIONARY_THRESHOLD ->
             "suspended"
      [] turnstileValid /\ ~isDisposable /\ score >= SYBIL_SCORE_BUILDER_THRESHOLD /\ gates ->
             "builder"
      [] OTHER -> "probationary"

Assessment(score, tier, exceeded) ==
    [score |-> score, tier |-> tier, passed |-> tier # "suspended", exceeded |-> exceeded]

riskLevel(score) ==
    CASE score >= 80 -> "low"
      [] score \in 60..79 -> "medium"
      [] score \in 40..59 -> "high"
      [] OTHER -> "critical"

Points(list) ==
    FoldFunction(+, 0, [i \in DOMAIN list |-> IF list[i][1] THEN list[i][2] ELSE 0])

-----------------------------------------------------------------------------
(* evaluateAntiSybil.  Signals are the values the layers look at: turnstile *)
(* (its check's result), subnet, asn, tor, email, verified, age, repos,     *)
(* contributions.                                                           *)

IsTor(request) == request.isTor \/ request.country = "T1"

evaluateAntiSybil(tracker, s, day) ==
    LET exceeded == getSubnetRegistrationCount(tracker, s.subnet, day) >= MAX_REGISTRATIONS_PER_SUBNET
        disposable == isDisposableEmail(s.email)
        mature == s.age >= BUILDER_MIN_ACCOUNT_AGE_DAYS
        hasRepos == s.repos >= BUILDER_MIN_PUBLIC_REPOS
        hasContributions == s.contributions >= BUILDER_MIN_CONTRIBUTIONS
        network == 100 + Points(<< <<exceeded, -45>>, <<isDatacenterAsn(s.asn), -25>>,
                                   <<s.tor, -30>> >>)
        profile == (IF disposable THEN AtMost(network, 20) ELSE network)
                   + Points(<< <<~Get(s.verified, FALSE), -25>>, <<~mature, -20>>,
                               <<~hasRepos, -15>>, <<~hasContributions, -10>> >>)
        score == IF s.turnstile THEN AtLeast(0, profile) ELSE 0
    IN Assessment(score,
                  TierOf(s.turnstile, disposable, score,
                         mature /\ hasRepos /\ hasContributions /\ ~exceeded),
                  exceeded)

\* What it does with its assessment in the end; recordOnPass is true unless the
\* caller says otherwise.
registerEvaluated(tracker, a, subnet, day, recordOnPass) ==
    IF a.passed /\ recordOnPass THEN recordRegistration(tracker, subnet, day) ELSE tracker

\* toSybilScore: a score of risk, with the level of the score it is made of.
toSybilScore(a) ==
    [a EXCEPT !.score = 100 - @] @@ [riskLevel |-> riskLevel(a.score)]

-----------------------------------------------------------------------------
(* calculateSybilScore.                                                    *)

\* Where the request comes from.
ClientIp(user, req) ==
    Get(Or(Or(Or(req.cfConnectingIp, req.xRealIp), req.xForwardedFor),
           Or(req.ip, user.registrationIp)),
        [kind |-> "v4", parts |-> <<"127", "0", "0", "1">>])

\* What GitHub's answer adds to what the caller knows; an answer that is not
\* ok, or none, is a profile of {}.
Profile(user, github) ==
    [age |-> Or(user.age, github.age), repos |-> Or(user.repos, github.repos),
     contributions |-> Or(user.contributions, github.contributions),
     email |-> Or(user.email, github.email)]

\* A bot score below 30 decides; then a token, which without a secret only the
\* fixtures survive; with neither, the newcomer passes, as one whose address
\* nobody says anything of counts as verified (Synthesis).
TurnstileValid(req) ==
    /\ \A b \in Or(req.botManagement, req.botScoreHeader) : b >= 30
    /\ \A token \in req.turnstileToken : verifyTurnstileToken(token, FALSE, FALSE)

SignalsOf(user, req, github) ==
    LET known == Profile(user, github) IN
    [turnstile |-> TurnstileValid(req), subnet |-> extractSubnet(ClientIp(user, req)),
     asn |-> req.asn, tor |-> IsTor(req), email |-> known.email,
     verified |-> user.verified, age |-> AtLeast(0, Get(known.age, 0)),
     repos |-> AtLeast(0, Get(known.repos, 0)),
     contributions |-> AtLeast(0, Get(known.contributions, 0))]

\* From the layers on.
Synthesis(tracker, s, day) ==
    LET exceeded == getSubnetRegistrationCount(tracker, s.subnet, day) >= MAX_REGISTRATIONS_PER_SUBNET
        disposable == isDisposableEmail(s.email)
        mature == s.age > SYBIL_MIN_ACCOUNT_AGE_DAYS
        active == \/ s.repos > SYBIL_MIN_ACTIVITY_REPOS
                  \/ s.contributions > SYBIL_MIN_ACTIVITY_CONTRIBUTIONS
        points == Points(<< <<s.turnstile, 20>>, <<~exceeded, 20>>,
                            <<isDatacenterAsn(s.asn), -10>>, <<s.tor, -10>>,
                            <<~disposable, 20>>, <<~Get(s.verified, TRUE), -10>>,
                            <<mature, 20>>, <<active, 20>> >>)
        score == CASE ~s.turnstile -> 0
                   [] s.turnstile /\ disposable -> AtLeast(0, AtMost(points, 20))
                   [] OTHER -> AtLeast(0, points)
    IN Assessment(score, TierOf(s.turnstile, disposable, score, mature /\ active /\ ~exceeded),
                  exceeded)

calculateSybilScore(tracker, user, req, github, day) ==
    LET a == Synthesis(tracker, SignalsOf(user, req, github), day) IN
    a @@ [riskLevel |-> riskLevel(a.score)]

registerCalculated(tracker, a, subnet, day) ==
    IF a.passed /\ ~a.exceeded THEN recordRegistration(tracker, subnet, day) ELSE tracker

-----------------------------------------------------------------------------
(* What a grade promises.                                                  *)

Rank(tier) == CASE tier = "suspended" -> 0 [] tier = "probationary" -> 1 [] tier = "builder" -> 2

NoWorse(a, b) == Rank(a.tier) <= Rank(b.tier) /\ a.score <= b.score

\* A newcomer with better signals is graded no worse by either grader, whatever
\* the subnet has seen.  (Better than a signal that is there: one that is missing
\* may count for a good one, see TurnstileValid and Synthesis.)
GradesFollowSignals(tracker, signals, better) ==
    LET a == evaluateAntiSybil(tracker, signals, 0)
        b == evaluateAntiSybil(tracker, better, 0)
    IN /\ NoWorse(a, b) /\ toSybilScore(a).score >= toSybilScore(b).score
       /\ NoWorse(Synthesis(tracker, signals, 0), Synthesis(tracker, better, 0))

\* Where GitHub cannot be asked, nobody is graded better than if it could.
SilenceHelpsNobody(user, req, github) ==
    LET nothing == [field \in DOMAIN github |-> {}] IN
    NoWorse(calculateSybilScore(NoRegistrations, user, req, nothing, 0),
            calculateSybilScore(NoRegistrations, user, req, github, 0))

\* Newcomers, as [signals, at, slow], in the order in which their subnets'
\* registrations are counted: the grades a grader gives them.  Between the count
\* and the record it awaits, so that one who is slow is recorded only after
\* whoever else comes in the same moment has been counted (d.due).
Graded(newcomers, assess(_, _, _), register(_, _, _, _)) ==
    LET Settled(d, at) ==
            FoldLeft(LAMBDA e, w : IF w.at < at
                                   THEN [e EXCEPT !.tracker =
                                             register(@, w.grade, w.subnet, w.at)]
                                   ELSE [e EXCEPT !.due = Append(@, w)],
                     [d EXCEPT !.due = <<>>], d.due)
        Assessed(d, n) ==
            LET a == assess(d.tracker, n.signals, n.at)
                graded == [d EXCEPT !.grades = Append(@, a)]
            IN IF n.slow
               THEN [graded EXCEPT !.due =
                        Append(@, [grade |-> a, subnet |-> n.signals.subnet, at |-> n.at])]
               ELSE [graded EXCEPT !.tracker = register(@, a, n.signals.subnet, n.at)]
    IN FoldLeft(LAMBDA d, n : Assessed(Settled(d, n.at), n),
                [tracker |-> NoRegistrations, due |-> <<>>, grades |-> <<>>],
                newcomers).grades

EvaluatedInTurn(newcomers) ==
    Graded(newcomers, evaluateAntiSybil,
           LAMBDA tr, a, subnet, t : registerEvaluated(tr, a, subnet, t, TRUE))

CalculatedInTurn(newcomers) == Graded(newcomers, Synthesis, registerCalculated)

\* Whoever is made a builder is the first that was let in from a subnet in a
\* window, but for those whose assessments were under way together with his;
\* calculateSybilScore does not count whom it let in beyond the limit, so that a
\* probationary newcomer keeps nobody out.
FirstOfSubnet(newcomers) ==
    LET evaluated == EvaluatedInTurn(newcomers)
        calculated == CalculatedInTurn(newcomers)
        Before(i) == {j \in 1..i-1 :
                          /\ newcomers[j].signals.subnet = newcomers[i].signals.subnet
                          /\ newcomers[i].at - newcomers[j].at < SUBNET_VELOCITY_WINDOW
                          /\ newcomers[j].slow => newcomers[j].at < newcomers[i].at}
    IN \A i \in DOMAIN newcomers :
           /\ evaluated[i].tier = "builder" =>
                  \A j \in Before(i) : ~evaluated[j].passed
           /\ calculated[i].tier = "builder" =>
                  \A j \in Before(i) : calculated[j].passed => calculated[j].exceeded

=============================================================================
