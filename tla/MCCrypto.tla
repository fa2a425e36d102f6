------------------------------ MODULE MCCrypto ------------------------------
(* KeyStore and PskHandshake for TLC, which share nothing: a behaviour is  *)
(* one of the two modules', the variables of the other keep still.         *)
EXTENDS KeyStore, PskHandshake

VARIABLE part    \* whose behaviour it is

CryptoVars == <<part, keyVars, vars>>

CryptoInit ==
    /\ KeyInit /\ Init
    /\ part \in {"keys", "psk"} /\ (part = "keys" => serverPsk = ClientPsk)

CryptoNext ==
    /\ \/ part = "keys" /\ KeyNext /\ UNCHANGED vars
       \/ part = "psk" /\ Next /\ UNCHANGED keyVars
    /\ UNCHANGED part

CryptoSpec == CryptoInit /\ [][CryptoNext]_CryptoVars
=============================================================================
