---------------------------- MODULE KeyAgreement ----------------------------
(***************************************************************************)
(* The key schedule of a channel, symbolically: combineDH and channelSalt  *)
(* (internal/transport/handshake.go), DH, HKDF and DeriveSessionKeys       *)
(* (internal/crypto/crypto.go), and how dialChannel and ServeHTTP call     *)
(* them.  A key pair is a name that stands for either half; X25519 is      *)
(* symmetric, HKDF injective.                                              *)
(***************************************************************************)

DH(priv, pub) == {priv, pub}

CombineDH(priv1, pub1, priv2, pub2) == <<DH(priv1, pub1), DH(priv2, pub2)>>

ChannelSalt(clientEph, serverEph, sid, chanIdx) ==
  <<clientEph, serverEph, sid, chanIdx>>

HKDF(secret, salt, info) == <<secret, salt, info>>

DeriveSessionKeys(shared, salt, isClient) ==
  LET c2s == HKDF(shared, salt, "c2s")
      s2c == HKDF(shared, salt, "s2c")
  IN IF isClient THEN [tx |-> c2s, rx |-> s2c] ELSE [tx |-> s2c, rx |-> c2s]

\* dialChannel: eph is its own pair, serverEph came in the response.
ClientKeys(eph, serverEph, static, sid, chanIdx) ==
  DeriveSessionKeys(CombineDH(eph, serverEph, eph, static),
                    ChannelSalt(eph, serverEph, sid, chanIdx), TRUE)

\* ServeHTTP: eph is its own pair, clientEph came in the cookie.
ServerKeysStaticFirst(eph, clientEph, static, sid, chanIdx) ==
  DeriveSessionKeys(CombineDH(static, clientEph, eph, clientEph),
                    ChannelSalt(clientEph, eph, sid, chanIdx), FALSE)

ServerKeys(eph, clientEph, static, sid, chanIdx) ==
  DeriveSessionKeys(CombineDH(eph, clientEph, static, clientEph),
                    ChannelSalt(clientEph, eph, sid, chanIdx), FALSE)
=============================================================================
