------------------------------ MODULE StellarToml ------------------------------
(***************************************************************************)
(* core/toml: the file that toml.Publisher renders and toml.Resolver       *)
(* parses.  A line is a table header or a pair of key and value; quotes,   *)
(* comments and white space are abstracted.  Of the keys at the top        *)
(* signingKey and webAuthEndpoint stand for the others, of a currency's    *)
(* keys issuer for those that both sides know, and desc for those that     *)
(* only the publisher writes (desc, is_asset_anchored).  An empty value    *)
(* stands for a missing one; a value has no quotes, line breaks or outer   *)
(* white space of its own, and the file is shorter than maxTomlSize.       *)
(***************************************************************************)
EXTENDS Naturals, Sequences

CONSTANTS MaxCurrencies,  \* maxCurrencyArrays
          Publishable     \* the files that an anchor may publish

CurrencyInfo == [code: STRING, issuer: STRING, desc: STRING]

AnchorInfo == [signingKey: STRING, webAuthEndpoint: STRING, currencies: Seq(CurrencyInfo)]

ASSUME TomlAssumption ==
    /\ MaxCurrencies \in Nat
    /\ Publishable \subseteq AnchorInfo

Header == [kind |-> "currencies"]
Table == [kind |-> "table"]
Pair(key, value) == [kind |-> "pair", key |-> key, value |-> value]

\* The line of a pair that is left out when it is empty.
Optional(key, value) == IF value = "" THEN <<>> ELSE <<Pair(key, value)>>

RenderKeys(info) ==
    Optional("SIGNING_KEY", info.signingKey)
    \o Optional("WEB_AUTH_ENDPOINT", info.webAuthEndpoint)

RenderCurrency(c) ==
    (<<Header>> \o <<Pair("code", c.code)>>)
    \o (Optional("issuer", c.issuer) \o Optional("desc", c.desc))

RenderCurrencies(cs) ==
    LET first[n \in 0..Len(cs)] ==
          IF n = 0 THEN <<>> ELSE first[n - 1] \o RenderCurrency(cs[n])
    IN first[Len(cs)]

Render(info) == RenderKeys(info) \o RenderCurrencies(info.currencies)

-----------------------------------------------------------------------------
(* parse: the state of its loop, with the currency whose table it is in. *)

EmptyInfo == [signingKey |-> "", webAuthEndpoint |-> "", currencies |-> <<>>]

NoCurrency == [code |-> "", issuer |-> "", desc |-> ""]

Start == [info |-> EmptyInfo, inCurrencies |-> FALSE, current |-> NoCurrency, full |-> FALSE]

\* A currency counts once it has a code.
Counts(s) == s.inCurrencies /\ s.current.code # ""

Closed(s) == IF Counts(s) THEN [s EXCEPT !.info.currencies = Append(@, s.current)] ELSE s

\* MUTANT: the next table begins before the last one is closed.
ParseHeaderUnclosed(s) == [s EXCEPT !.inCurrencies = TRUE, !.current = NoCurrency]

\* At the limit the loop ends, with the last currency still open.
ParseHeader(s) ==
    LET t == Closed(s) IN
    IF Counts(s) /\ Len(t.info.currencies) >= MaxCurrencies THEN [t EXCEPT !.full = TRUE]
    ELSE [t EXCEPT !.inCurrencies = TRUE, !.current = NoCurrency]

ParsePair(s, line) ==
    CASE s.inCurrencies /\ line.key = "code" -> [s EXCEPT !.current.code = line.value]
      [] s.inCurrencies /\ line.key = "issuer" -> [s EXCEPT !.current.issuer = line.value]
      [] ~s.inCurrencies /\ line.key = "SIGNING_KEY" ->
             [s EXCEPT !.info.signingKey = line.value]
      [] ~s.inCurrencies /\ line.key = "WEB_AUTH_ENDPOINT" ->
             [s EXCEPT !.info.webAuthEndpoint = line.value]
      [] OTHER -> s

ParseLine(s, line) ==
    CASE s.full -> s
      [] ~s.full /\ line = Header -> ParseHeader(s)
      [] ~s.full /\ line = Table -> [Closed(s) EXCEPT !.inCurrencies = FALSE]
      [] OTHER -> ParsePair(s, line)

Parse(lines) ==
    LET after[n \in 0..Len(lines)] ==
          IF n = 0 THEN Start ELSE ParseLine(after[n - 1], lines[n])
    IN Closed(after[Len(lines)]).info
-----------------------------------------------------------------------------

\* What a wallet is to see of the published info: without the keys that only the
\* publisher knows, and without currencies that have no code.
KeptCurrencies(cs) ==
    LET first[n \in 0..Len(cs)] ==
          IF n = 0 THEN <<>>
          ELSE IF cs[n].code = "" THEN first[n - 1]
               ELSE Append(first[n - 1], [cs[n] EXCEPT !.desc = ""])
    IN first[Len(cs)]

Kept(info) == [info EXCEPT !.currencies = KeptCurrencies(@)]

\* The resolver reads what the publisher has written, field by field and currency by
\* currency, for files of up to maxCurrencyArrays currencies: none is lost, and none
\* takes over a field of the one before (publisher.go:17, resolver.go:88).
ReadsAsWritten(info) ==
    Len(info.currencies) <= MaxCurrencies => Parse(Render(info)) = Kept(info)
=============================================================================
