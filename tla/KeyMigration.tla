---------------------------- MODULE KeyMigration ----------------------------
(***************************************************************************)
(* The migration of the stored keys from the master key to their tenants'  *)
(* keys (ops/migrate_keys_hkdf.ts), beside an owner who replaces a secret  *)
(* meanwhile (worker/router/dashboard/keys/ops.ts).                        *)
(*                                                                         *)
(* A batch of rows is selected from those that are not marked, past an     *)
(* offset; each is decrypted, encrypted anew, written back and marked.     *)
(* The ciphertexts are those of KeySecrets.                                *)
(***************************************************************************)
EXTENDS KeySecrets, SequencesExt

CONSTANTS
    RowCount,    \* rows of api_keys, of one tenant; D1 returns them in order
    BatchSize,   \* batchSize, 50
    InvalidRows      \* those of them that are invalid

VARIABLES
    stored,      \* api_keys: per row, its columns
    marked,      \* rows with hkdf_migrated = 1
    offset,
    batch,       \* the rows of the batch as they were selected
    outcome      \* migrated and errors; ended

vars == <<stored, marked, offset, batch, outcome>>

KC_MASTER_KEY == Passphrase("KC_MASTER_KEY", 32, FALSE)
Owner == "tenant"
Nonce(name) == Bytes(NONCE_LENGTH_BYTES, name)

\* A key stored before the change: encrypted with the master key.
Legacy ==
    LET made == encrypt(Secret, KC_MASTER_KEY, Nonce("old")) IN
    [tenant |-> Owner, ciphertext |-> made.ciphertextB64, nonce |-> made.nonceB64]

Columns(sealed) ==
    [tenant |-> Owner, ciphertext |-> sealed.ciphertext, nonce |-> sealed.nonce]

Init ==
    /\ stored = [n \in 1..RowCount |-> Legacy]
    /\ marked = {}
    /\ offset = 0
    /\ batch = <<>>
    /\ outcome = [migrated |-> 0, errors |-> 0, ended |-> FALSE]

\* SELECT ... WHERE status is not invalid AND not marked LIMIT ? OFFSET ?
Select ==
    LET left == SetToSortSeq({n \in 1..RowCount : n \notin InvalidRows /\ n \notin marked}, <) IN
    IF offset >= Len(left) THEN <<>>
    ELSE SubSeq(left, offset + 1,
                IF offset + BatchSize > Len(left) THEN Len(left) ELSE offset + BatchSize)

\* The next batch; without one, the end.
NextBatch ==
    /\ ~outcome.ended /\ batch = <<>>
    /\ batch' = [i \in DOMAIN Select |-> [row |-> Select[i], was |-> stored[Select[i]]]]
    /\ outcome' = [outcome EXCEPT !.ended = Select = <<>>]
    /\ UNCHANGED <<stored, marked, offset>>

\* A row of the batch; after the last one the offset moves on.  A row that does
\* not decrypt with the master key is counted and left.
MigrateRow ==
    LET head == Head(batch)
        new  == migrateRow(head.was, KC_MASTER_KEY, Nonce("new")) IN
    /\ batch # <<>>
    /\ batch' = Tail(batch)
    /\ offset' = IF Len(batch) = 1 THEN offset + BatchSize ELSE offset
    /\ IF new = head.was
       THEN /\ outcome' = [outcome EXCEPT !.errors = @ + 1]
            /\ UNCHANGED <<stored, marked>>
       ELSE /\ stored' = [stored EXCEPT ![head.row] = new]
            /\ marked' = marked \cup {head.row}
            /\ outcome' = [outcome EXCEPT !.migrated = @ + 1]

\* handleRotateKeySecret, which does not mark the row.
RotateKeySecret(n) ==
    /\ stored' = [stored EXCEPT ![n] =
           Columns(encryptPlaintextKey(Bytes(39, "replaced"), Owner, KC_MASTER_KEY, Nonce("rotated")))]
    /\ UNCHANGED <<marked, offset, batch, outcome>>

Next == NextBatch \/ MigrateRow \/ \E n \in 1..RowCount : RotateKeySecret(n)

Spec == Init /\ [][Next]_vars

-----------------------------------------------------------------------------
(* Properties *)

\* Of the program docs/PRD.md says that existing encrypted keys in D1 must be
\* migrated: when it has ended, no valid row is left under the master key.
EveryKeyMigrated ==
    outcome.ended =>
        \A n \in 1..RowCount \ InvalidRows :
            decrypt(stored[n].ciphertext, KC_MASTER_KEY, stored[n].nonce) = Failure
=============================================================================
