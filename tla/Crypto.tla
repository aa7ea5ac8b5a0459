------------------------------- MODULE Crypto -------------------------------
(***************************************************************************)
(* Digests and signatures (src/witness/crypto.py, canon.py), ideal: two    *)
(* are equal exactly when all they cover is.  A damaged one is Altered, of *)
(* the right form, or Malformed: no base64, or not of its length.          *)
(***************************************************************************)
CONSTANTS
    Operator,   \* the key ids in the keyring
    Witness

KeyIds == {Operator, Witness}

ASSUME KeyAssumption == Operator # Witness

Altered == <<"altered">>
Malformed == <<"malformed">>

Digest(content) == <<"sha256", content>>
SignB64(key, content) == <<"ed25519", key, content>>

\* parse_signature_b64 raises ValueError, though verify_signature "does not
\* raise".
SignatureRaises(signature) == signature = Malformed
VerifySignature(key, content, signature) == signature = SignB64(key, content)
=============================================================================
