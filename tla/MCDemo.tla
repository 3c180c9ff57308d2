------------------------------- MODULE MCDemo -------------------------------
(* Two addresses; a minute of 2, a rotation of 3, stale after 2, a day of 6. *)
(*                                                                           *)
(* Newcomers are graded on both sides of every threshold, and up to three    *)
(* after one another: good ones, young ones and ones with a burner address,  *)
(* of two subnets, together, a window less a day, or a window apart.         *)
EXTENDS Demo, Sybil, SequencesExt

MCDisposable == { <<"mailinator", "com">> }
MCDatacenters == {16509}

Mail(domain) == {[user |-> "someone", domain |-> domain]}
Bad == Mail(<<"sub", "mailinator", "com">>)
Good == Mail(<<"mail", "example", "com">>)

Here == extractSubnet([kind |-> "v4", parts |-> <<"198", "51", "100", "10">>])

Signals == [turnstile : BOOLEAN, subnet : {Here}, asn : {{}, {16509}}, tor : BOOLEAN,
            email : {Bad, Good}, verified : {{}, {FALSE}, {TRUE}}, age : {29, 30, 31},
            repos : {0, 1, 6}, contributions : {4, 5, 21}]

Best == [turnstile |-> TRUE, subnet |-> Here, asn |-> {}, tor |-> FALSE, email |-> Good,
         verified |-> {TRUE}, age |-> 31, repos |-> 6, contributions |-> 21]

\* Signals with one of them as good as it can be.
Better(s) == {[s EXCEPT ![field] = Best[field]] : field \in DOMAIN s}

There == extractSubnet([kind |-> "v6", parts |-> <<"2001", "db8", "", "1">>])
Newcomers ==
    [signals : {Best, [Best EXCEPT !.age = 3], [Best EXCEPT !.email = Bad],
                [Best EXCEPT !.subnet = There]},
     gap : {0, 29, 30}, slow : BOOLEAN]

\* The day of each of these newcomers.
Dated(list) ==
    [i \in DOMAIN list |->
        [signals |-> list[i].signals, slow |-> list[i].slow,
         at |-> FoldLeft(LAMBDA d, n : d + n.gap, 0, SubSeq(list, 1, i))]]

Users == [age : {{}, {3}, {40}}, repos : {{}, {0}}, contributions : {{}, {30}},
          email : {{}, Good}, verified : {{}, {FALSE}}, registrationIp : {{}}]
GitHubs == [age : {{}, {2}, {50}}, repos : {{}, {9}}, contributions : {{}, {1}}, email : {{}, Bad, Good}]
Asked == [cfConnectingIp |-> {}, xRealIp |-> {}, xForwardedFor |-> {}, ip |-> {}, asn |-> {},
          isTor |-> FALSE, country |-> "T1", botManagement |-> {}, botScoreHeader |-> {30},
          turnstileToken |-> {"VALID_FIXTURE"}]

\* What the graders promise: a fact of the constants, looked at while the
\* sandbox is up.
Gradings ==
    /\ \A s \in Signals, seen \in {NoRegistrations, Here :> <<-1>>} :
           \A b \in Better(s) : GradesFollowSignals(seen, s, b)
    /\ \A user \in Users, github \in GitHubs : SilenceHelpsNobody(user, Asked, github)
    /\ \A list \in SeqOf(Newcomers, 3) : FirstOfSubnet(Dated(list))

\* Better signals are graded no worse (evaluateAntiSybil), what GitHub does not say
\* of a newcomer does not help him (calculateSybilScore), and a subnet gets one
\* builder a window, or as many as are assessed together (recordRegistration).
GradesRight == up => Gradings
=============================================================================
