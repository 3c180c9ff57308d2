----------------------------- MODULE KeySecrets -----------------------------
(***************************************************************************)
(* How provider keys are encrypted, stored and found again: AES-256-GCM    *)
(* with keys derived from the master key (crypto/encryption), its older    *)
(* sibling in durable_objects/crypto.ts, the repository's helpers          *)
(* (storage/repositories/api_keys/crypto.ts), the hashes of                *)
(* crypto/hashing.ts, the look-up of worker/router/core/key_resolver.ts    *)
(* and the row that ops/migrate_keys_hkdf.ts rewrites.                     *)
(*                                                                         *)
(* Cryptography is symbolic: a key is the way it was derived, a ciphertext *)
(* the plaintext with its key and nonce, and it opens under that key and   *)
(* that nonce alone.  Bytes have a length and a value, a text the form it  *)
(* is written in; how the forms are read is the matter of Encoding.        *)
(***************************************************************************)
EXTENDS Encoding

CONSTANT DEFAULT   \* "default", the tenant of keys that the administrator adds

Failure == [is |-> "failure"]

NONCE_LENGTH_BYTES == 12
TAG_LENGTH_BYTES == 16
ENCRYPTION_KEY_LENGTH_BYTES == 32

isValidNonceLength(length) == length = NONCE_LENGTH_BYTES

Bytes(length, value) == [is |-> "bytes", length |-> length, value |-> value]
Garbled(length) == [is |-> "garbled", length |-> length, value |-> "garbled"]
Text(form, bytes) == [is |-> "text", form |-> form, bytes |-> bytes]

\* Hexadecimal digits are base64 too: read so they are other bytes.
FromBase64(text) ==
    CASE text.form = "base64" -> text.bytes
      [] text.form = "hex" -> Garbled((text.bytes.length * 6) \div 4)
      [] OTHER -> Failure

AsBytes(x) == IF x.is = "text" THEN FromBase64(x) ELSE x

-----------------------------------------------------------------------------
(* Keys (encryption/keys.ts) *)

Key(by, from, tenant) == [is |-> "key", by |-> by, from |-> from, tenant |-> tenant]

\* What may be given for a key: a passphrase, bytes or a key.
Passphrase(value, length, blank) ==
    [is |-> "passphrase", value |-> value, length |-> length, blank |-> blank]

deriveKey(secret) ==
    IF secret.length = 0 THEN Failure ELSE Key("SHA-256", secret.value, "none")

importRawKey(raw) ==
    IF raw.length # ENCRYPTION_KEY_LENGTH_BYTES THEN Failure ELSE Key("raw", raw.value, "none")

\* HKDF with the tenant as its salt; a key cannot be derived from again.
deriveTenantKey(master, tenant) ==
    IF master.is = "key" THEN Failure ELSE Key("HKDF", master.value, tenant)

resolveKey(input) ==
    IF input.is = "key" THEN input
    ELSE IF input.length = 0 THEN Failure
    ELSE IF input.is = "bytes" /\ input.length = ENCRYPTION_KEY_LENGTH_BYTES
    THEN importRawKey(input)
    ELSE deriveKey(input)

-----------------------------------------------------------------------------
(* Encryption (encryption/aes.ts) *)

Sealed(plain, key, nonce) ==
    Bytes(plain.length + TAG_LENGTH_BYTES, [plain |-> plain, key |-> key, nonce |-> nonce])

\* crypto.subtle.decrypt
Open(cipher, key, nonce) ==
    IF \/ key = Failure
       \/ cipher.length < TAG_LENGTH_BYTES \/ cipher.is = "garbled"
       \/ cipher.value.key # key \/ cipher.value.nonce # nonce
    THEN Failure
    ELSE cipher.value.plain

\* The combined form is the nonce followed by the ciphertext.
encrypt(plain, input, nonce) ==
    LET key == resolveKey(input) IN
    IF ~isValidNonceLength(nonce.length) \/ key = Failure THEN Failure
    ELSE LET cipher == Sealed(plain, key, nonce) IN
         [is |-> "payload", ciphertext |-> cipher, nonce |-> nonce,
          ciphertextB64 |-> Text("base64", cipher), nonceB64 |-> Text("base64", nonce),
          combined |-> Bytes(nonce.length + cipher.length, <<nonce, cipher>>)]

Payload(cipher, nonce) == [is |-> "payload", ciphertext |-> cipher, nonce |-> nonce]
NoNonce == [is |-> "none"]

\* A pair, two arguments, or the combined form, which must hold nonce and tag.
parseDecryptionInput(input, nonceParam) ==
    LET combined == AsBytes(input)
        parts ==
            IF input.is = "payload" THEN <<AsBytes(input.nonce), AsBytes(input.ciphertext)>>
            ELSE IF nonceParam # NoNonce THEN <<AsBytes(nonceParam), combined>>
            ELSE IF combined = Failure THEN <<Failure>>
            ELSE IF combined.length < NONCE_LENGTH_BYTES + TAG_LENGTH_BYTES THEN <<Failure>>
            ELSE IF combined.is = "garbled"
            THEN <<Garbled(NONCE_LENGTH_BYTES), Garbled(combined.length - NONCE_LENGTH_BYTES)>>
            ELSE combined.value
    IN  IF Failure \in {parts[i] : i \in DOMAIN parts} THEN Failure
        ELSE Payload(parts[2], parts[1])

\* decryptRaw, and decrypt of the text that it decodes to.
decrypt(input, keyInput, nonceParam) ==
    LET key    == resolveKey(keyInput)
        parsed == parseDecryptionInput(input, nonceParam) IN
    IF key = Failure \/ parsed = Failure THEN Failure
    ELSE IF ~isValidNonceLength(parsed.nonce.length) THEN Failure
    ELSE Open(parsed.ciphertext, key, parsed.nonce)

\* decodeBase64OrHex of a text whose length in bytes is known: its form is clear.
FromEither(text) == IF text.form \in {"base64", "hex"} THEN text.bytes ELSE Failure

\* EncryptionService.decrypt: the ciphertext is read as base64, and once more as
\* hexadecimal if that fails.
ServiceDecrypt(cipher, nonce, key) ==
    LET first == decrypt(Payload(FromBase64(cipher), FromEither(nonce)), key, NoNonce) IN
    IF Failure \in {FromBase64(cipher), FromEither(nonce)} THEN Failure
    ELSE IF first = Failure /\ cipher.form = "hex"
    THEN decrypt(Payload(cipher.bytes, FromEither(nonce)), key, NoNonce)
    ELSE first

-----------------------------------------------------------------------------
(* durable_objects/crypto.ts *)

Absent == [is |-> "none"]

\* The explicit key, else the environment's; a blank one is refused.
resolveMasterKey(explicit, environment) ==
    LET refused(k) == \/ k.is = "passphrase" /\ k.blank
                      \/ k.is = "bytes" /\ k.length = 0 IN
    IF explicit # Absent THEN IF refused(explicit) THEN Failure ELSE explicit
    ELSE IF environment = Absent \/ refused(environment) THEN Failure ELSE environment

resolveCryptoKey(input) ==
    IF input.is = "key" THEN input
    ELSE IF input.is = "bytes" /\ input.length = ENCRYPTION_KEY_LENGTH_BYTES
    THEN importRawKey(input)
    ELSE IF input.is \in {"bytes", "passphrase"} THEN deriveKey(input)
    ELSE Failure

validateNonce(nonce) ==
    AsBytes(nonce) # Failure /\ isValidNonceLength(AsBytes(nonce).length)

\* decryptKeyRaw, decryptKey: both texts are base64, and the master key, however
\* it is given, is used as it is and for no tenant.
decryptKey(cipher, nonce, explicit, environment) ==
    LET master == resolveMasterKey(explicit, environment) IN
    IF ~validateNonce(nonce) \/ FromBase64(cipher) = Failure \/ master = Failure THEN Failure
    ELSE IF FromBase64(cipher).length < TAG_LENGTH_BYTES THEN Failure
    ELSE Open(FromBase64(cipher), resolveCryptoKey(master), FromBase64(nonce))

\* encryptKey: the tenant and the provider must be named, the ciphertext does not
\* depend on them.
encryptKey(plain, tenant, provider, explicit, environment, nonce) ==
    LET master == resolveMasterKey(explicit, environment) IN
    IF \/ plain.length = 0 \/ tenant = "" \/ provider = ""
       \/ ~validateNonce(nonce) \/ master = Failure
    THEN Failure
    ELSE IF resolveCryptoKey(master) = Failure THEN Failure
    ELSE [is |-> "key record", tenantId |-> tenant, provider |-> provider,
          ciphertext |-> Text("base64", Sealed(plain, resolveCryptoKey(master), AsBytes(nonce))),
          nonce |-> Text("base64", AsBytes(nonce)), status |-> "active"]

-----------------------------------------------------------------------------
(* storage/repositories/api_keys/crypto.ts *)

\* The lengths that are shown of a key: 6 characters first and 4 last, or of a
\* short one its first.
maskApiKey(length) ==
    IF length <= 10 THEN [prefix |-> IF length < 6 THEN length ELSE 6, suffix |-> 0]
    ELSE [prefix |-> 6, suffix |-> 4]

encryptPlaintextKey(plain, tenant, master, nonce) ==
    LET sealed == encrypt(plain, deriveTenantKey(master, tenant), nonce) IN
    IF deriveTenantKey(master, tenant) = Failure THEN Failure
    ELSE [tenant |-> tenant, ciphertext |-> sealed.ciphertextB64, nonce |-> sealed.nonceB64,
          shown |-> maskApiKey(plain.length)]

decryptApiKeyRecord(row, master) ==
    IF deriveTenantKey(master, row.tenant) = Failure THEN Failure
    ELSE decrypt(Payload(row.ciphertext, row.nonce), deriveTenantKey(master, row.tenant), NoNonce)

-----------------------------------------------------------------------------
(* key_resolver.ts *)

\* Wrong: keys of the default tenant are not tried.
AttemptsNarrow(row, caller, master) ==
    << deriveTenantKey(master, row.tenant), deriveTenantKey(master, caller), resolveKey(master) >>

\* The keys that are tried, in order: for the row's tenant, for the caller, the
\* master key itself and the one for the default tenant.
Attempts(row, caller, master) ==
    << deriveTenantKey(master, row.tenant), deriveTenantKey(master, caller),
       resolveKey(master), deriveTenantKey(master, DEFAULT) >>

\* The plaintext of the first attempt that succeeds; Failure stands for the id
\* that is returned if none does.
resolvePlaintextKey(row, caller, master) ==
    LET keys == Attempts(row, caller, master)
        tried(i) == IF keys[i] = Failure THEN Failure
                    ELSE decrypt(Payload(row.ciphertext, row.nonce), keys[i], NoNonce)
        good == {i \in DOMAIN keys : tried(i) # Failure /\ tried(i).length > 0}
    IN  IF good = {} THEN Failure ELSE tried(CHOOSE i \in good : \A j \in good : i <= j)

\* migrateKeysToHkdf, one row: from the master key to the tenant's, if it can be
\* read.
migrateRow(row, master, nonce) ==
    LET plain == decrypt(row.ciphertext, master, row.nonce) IN
    IF plain = Failure THEN row
    ELSE LET sealed == encrypt(plain, deriveTenantKey(master, row.tenant), nonce) IN
         [row EXCEPT !.ciphertext = sealed.ciphertextB64, !.nonce = sealed.nonceB64]

-----------------------------------------------------------------------------
(* crypto/hashing.ts *)

\* A digest is what was hashed, with the salt or the key it was hashed with.
sha256(data) == [is |-> "digest", of |-> <<data>>]
hashWithSalt(data, salt) == [is |-> "digest", of |-> <<salt, data>>]
hmacSha256(key, data) == [is |-> "digest", of |-> <<"HMAC", key, data>>]

Written(form, digest) == [is |-> "text", form |-> form, bytes |-> digest]

\* A hash in hexadecimal digits of either case, in base64, or in that of URLs.
verifySha256(data, expected) ==
    expected.form \in {"hex", "HEX", "base64", "base64url"} /\ expected.bytes = sha256(data)

\* A token's hash is stored in hexadecimal digits.
verifyToken(token, expected) ==
    expected.form \in {"hex", "HEX"} /\ expected.bytes = sha256(token)

verifyHmacSha256(key, data, expected) ==
    expected.form # "junk" /\ expected.bytes = hmacSha256(key, data)

-----------------------------------------------------------------------------
(* Properties *)

Secret == Bytes(39, "secret")
Nonces == {Bytes(12, "a"), Bytes(12, "b"), Bytes(16, "c")}
Inputs == { Passphrase("m", 9, FALSE), Passphrase("n", 9, FALSE), Passphrase("w", 2, TRUE),
            Passphrase("", 0, TRUE), Bytes(32, "m"), Bytes(9, "m"), Bytes(0, ""),
            Key("raw", "k", "none"), Key("HKDF", "m", "t") }

Opened(right, plain) == IF right THEN plain ELSE Failure

\* Whatever the keys are given as, a secret is read back with an equal key and
\* with no other, in each of the forms it may be stored in, and not at all with a
\* nonce of another length; the object's own helpers agree with the library.
OpensWithItsKeyAlone ==
    \A a, b \in Inputs, nonce \in Nonces :
        LET made == encrypt(Secret, a, nonce)
            same == resolveKey(a) = resolveKey(b)
            record == encryptKey(Secret, "t", "google", a, Absent, nonce)
            blank == b.is = "passphrase" /\ b.blank IN
        /\ made # Failure <=> resolveKey(a) # Failure /\ nonce.length = 12
        /\ made # Failure =>
             /\ \A input \in {made, made.combined, Text("base64", made.combined),
                              Payload(made.ciphertextB64, made.nonceB64)} :
                    decrypt(input, b, NoNonce) = Opened(same, Secret)
             /\ decrypt(made.ciphertextB64, b, made.nonceB64) = Opened(same, Secret)
             /\ \A f, g \in {"base64", "hex"} :
                    ServiceDecrypt(Text(f, made.ciphertext), Text(g, nonce), b) = Opened(same, Secret)
        /\ record # Failure =>
             decryptKey(record.ciphertext, record.nonce, b, Absent) = Opened(same /\ ~blank, Secret)

\* A key stored for one tenant is read with that tenant's derived key alone, and
\* migrating a row, even twice, loses nobody who could read it before.
TenantsApart ==
    \A master \in {m \in Inputs : m.is # "key" /\ m.length > 0}, s, t \in {"t", "u", DEFAULT} :
        LET row == encryptPlaintextKey(Secret, s, master, Bytes(12, "a"))
            legacy == encryptKey(Secret, s, "google", master, Absent, Bytes(12, "a"))
            old == [row EXCEPT !.ciphertext = legacy.ciphertext]
            new == migrateRow(old, master, Bytes(12, "b")) IN
        /\ decryptApiKeyRecord([row EXCEPT !.tenant = t], master) = Opened(s = t, Secret)
        /\ legacy # Failure =>
             /\ resolvePlaintextKey(old, t, master) = Secret
             /\ resolvePlaintextKey(new, t, master) = Secret
             /\ decryptApiKeyRecord(new, master) = Secret
             /\ migrateRow(new, master, Bytes(12, "c")) = new

\* A hash is that of one text, in any of the ways it may be written.
HashesVerify ==
    \A a, b \in {"x", "y"}, form \in {"hex", "HEX", "base64", "base64url", "junk"} :
        /\ verifySha256(a, Written(form, sha256(b))) <=> a = b /\ form # "junk"
        /\ verifyToken(a, Written(form, sha256(b))) <=> a = b /\ form \in {"hex", "HEX"}
        /\ verifySha256(a, Written(form, hashWithSalt(b, "salt"))) = FALSE
        /\ verifyHmacSha256("k", a, Written(form, hmacSha256("k", b))) <=> a = b /\ form # "junk"

SampleBytes ==
    UNION {[1..n -> {0, 105, 190, 251, 255}] : n \in 0..4} \cup {[i \in 1..12 |-> b] : b \in 0..255}

SecretsKept ==
    /\ OpensWithItsKeyAlone /\ TenantsApart /\ HashesVerify
    /\ ReadAsWritten(SampleBytes)
    /\ ComparesRight(UNION {[1..n -> {0, 1, 255}] : n \in 0..3})
    /\ EvenlySpread({1, 2, 7, 10, 62, 64, 255, 256})
=============================================================================
