---------------------------- MODULE MCWalletLogin ----------------------------
(* WalletLogin with the files of StellarToml, for TLC. *)
EXTENDS WalletLogin, SequencesExt

Named == [code |-> "usdc", issuer |-> "g", desc |-> "dollars"]
Bare == [code |-> "eurc", issuer |-> "", desc |-> ""]
Nameless == [code |-> "", issuer |-> "g", desc |-> ""]

\* Currencies in every order, up to the parser's limit and one beyond.
Sample == [signingKey: {"g"}, webAuthEndpoint: {"", "/auth"},
           currencies: SeqOf({Named, Bare, Nameless}, MaxCurrencies + 1)]

\* The two files that the anchor of the run publishes.
Files == [signingKey: {"g"}, webAuthEndpoint: {"", "/auth"}, currencies: {<<Named, Bare>>}]
=============================================================================
