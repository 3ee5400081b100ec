-------------------------- MODULE SignatureVerifier --------------------------
(***************************************************************************)
(* The telemetry packet and the two pure checks the gateway makes on it:   *)
(* the content digest (utils/hash_utils) and the device signature          *)
(* (security/basic_signature_verifier).  Texts are strings and "" is the   *)
(* empty one.  A digest is the triple it was computed from: the text that  *)
(* is hashed is deviceId|timestamp|telemetryJson, and while device ids     *)
(* have no '|' that text is the same only when the three are.  Collisions  *)
(* of the hash are left out.  Anything that is not 64 hex characters is    *)
(* the empty tuple.                                                        *)
(***************************************************************************)
EXTENDS Naturals, Sequences

CONSTANT LoadedKeys      \* key ids whose PEM file was loaded and parses

Sha256Hex(deviceId, timestamp, telemetryJson) ==
    <<deviceId, timestamp, telemetryJson>>

IsHex64(hash) == Len(hash) = 3

\* What the device computes with the private key that matches pubKeyId.
Sign(pubKeyId, hash) == <<pubKeyId, hash>>

\* The empty tuple is a signature shorter than 16 characters.
LongEnough(signature) == Len(signature) > 0

Verify(packet) ==
    /\ packet.deviceId # ""
    /\ packet.pubKeyId # ""
    /\ IsHex64(packet.hashHex)
    /\ LongEnough(packet.signature)
    /\ packet.pubKeyId \in LoadedKeys
    /\ packet.signature = Sign(packet.pubKeyId, packet.hashHex)

==============================================================================
