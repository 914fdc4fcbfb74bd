--------------------------- MODULE MCProxyRequest ---------------------------
(* The proxy's handler and, side by side with it, what one request meets on  *)
(* its way: the limits and defaults of RequestLimits, the budget of          *)
(* CloudSpend, the recorder of ResponseTail and the figures of UsageLedger.  *)
(* Each behaviour exercises the one part `focus` names while the others      *)
(* rest; they share no state here, so one run explores them all.             *)
EXTENDS ProxyRequest, ResponseTail, RequestLimits, CloudSpend, UsageLedger, TLC

CONSTANTS big, small, gpt

VARIABLE focus

requestVars == <<focus, vars, tailVars, limitVars, spendVars, ledgerVars>>

-----------------------------------------------------------------------------
(* Two models that degrade to one another, an alias of the first.          *)
MCAlias    == gpt :> big
MCChain    == big :> {small} @@ small :> {big}
MCFallback == big :> {small} @@ small :> {}
MCAllow    == {{}, {gpt}, {small}}

\* Everything a model may have configured, a few settings, and a setting that one
\* runtime alone knows.
MCSettings ==
    {OllamaOptions \cup OllamaTop \cup BaseFields \cup {"system"}
       \cup UNION {ExtraFields(rt) : rt \in Runtimes},
     {"temperature", "system", "top_k"}, {"template"}}

\* A global cap of a day, of a month, and a daily one beside the key's own.
Caps(d, m, kd, km) == [day |-> d, month |-> m, keyDay |-> kd, keyMonth |-> km]
MCCaps == {Caps(1, 0, 0, 0), Caps(0, 1, 0, 0), Caps(1, 0, 1, 1)}

\* Responses: up to two lines, an object that reports a count (or an error, or
\* nothing) and what follows it; and objects over several lines, or over none.
Object(what, n) == <<"{">> \o [i \in 1 .. n |-> "x"] \o <<what, "}", "n">>
Filler(n) == [i \in 1 .. n |-> "x"]
Before == {<<>>, Object("x", 0), Object("1", 0), Object("1", 4), <<"n">>, <<"x", "n">>,
           Filler(9) \o <<"n">>}
Final == {Object("2", 0), Object("2", 3), Object("2", 6), Object("e", 1)}
After == {<<>>, <<"n">>, <<"x", "n">>, Filler(6)}
MCBodies ==
    {a \o b \o c \o d : a, b \in Before, c \in Final, d \in After}
    \cup {Object("x", 0) \o c \o d : c \in {Object("t", 1), Object("x", 2)}, d \in After}
    \cup {<<"{", "n", "x", "n", "2", "n", "}", "n">>, <<"{">> \o Filler(7) \o <<"2", "}">>,
          <<"{", "x", "2", "}">>, <<"{", "e", "}">>}

-----------------------------------------------------------------------------
(* One part at a time; "slots" is the handler with two requests to one node, *)
(* of a key that may use every model, not retried and kept in the fleet;     *)
(* "proxy" is one request with everything that may happen to it.  "ledger"   *)
(* counts one local call beside the cloud one; "queue" flushes nothing.      *)

RequestInit ==
    /\ focus \in {"proxy", "slots", "tail", "limits", "spend", "ledger", "queue"}
    /\ Init /\ (focus # "proxy" => localOnly /\ mayDegrade)
    /\ TailInit /\ (focus # "tail" => pending = <<"{", "e", "}">>)
    /\ LimitInit /\ (focus # "limits" => part = "bucket")
    /\ SpendInit /\ (focus # "spend" => caps = Caps(1, 0, 0, 0))
    /\ LedgerInit

\* The parts other than p rest.
Only(p) ==
    /\ focus = p
    /\ UNCHANGED focus
    /\ IF p \in {"proxy", "slots"} THEN TRUE ELSE UNCHANGED vars
    /\ IF p = "tail" THEN TRUE ELSE UNCHANGED tailVars
    /\ IF p = "limits" THEN TRUE ELSE UNCHANGED limitVars
    /\ IF p = "spend" THEN TRUE ELSE UNCHANGED spendVars
    /\ IF p \in {"ledger", "queue"} THEN TRUE ELSE UNCHANGED ledgerVars

first == CHOOSE r \in Request : TRUE
oneNode == CHOOSE n \in Node : TRUE
oneLocal == CHOOSE c \in LocalCalls : TRUE
OneRequest == \A r \in Request \ {first} : req'[r] = req[r]
Short ==
    /\ UNCHANGED <<localOnly, mayDegrade>>
    /\ \A r \in Request :
         /\ req'[r].attempt = 0 /\ req'[r].clouds = 0 /\ req'[r].allowed = {}
         /\ req'[r].client # gpt /\ req'[r].node \in {None, oneNode}

RequestNext ==
    \/ Only("proxy") /\ Next /\ OneRequest
    \/ Only("slots") /\ Next /\ Short
    \/ Only("tail") /\ TailNext
    \/ Only("limits") /\ LimitNext
    \/ Only("spend") /\ SpendNext
    \/ Only("ledger") /\ LedgerNext /\ \A c \in LocalCalls \ {oneLocal} : at'[c] = "idle"
    \/ Only("queue") /\ LedgerNext /\ flushes' = 0

\* As in FairSpec: waits and calls are bounded up to the response headers, and a body
\* only by its client's patience.
RequestSpec ==
    /\ RequestInit /\ [][RequestNext]_requestVars
    /\ WF_requestVars(Only("proxy") /\ Prompt(first))

-----------------------------------------------------------------------------
\* Whatever a request goes through, it reaches no provider and no model its key
\* rules out, is called a bounded number of times, is refunded only when nobody
\* served it, and arrives with the body of the model it is sent to.
RequestKept ==
    /\ TypeOK /\ LocalOnlyKept /\ AllowListKept /\ CallsBounded /\ RefundedUnserved
    /\ BodyFollows

\* The limits hold for requests and logins that come together, and what is kept of
\* a response is bounded, and charged as what it reports.
LimitsKept ==
    /\ focus = "limits" => RatesBounded /\ DefaultsYield /\ ExpiryAudited
    /\ focus = "tail" => TailBounded /\ CountHonest

\* Calls that spend together overrun a budget by less than their number and one more
\* for each failing store call; and what is
\* counted is not lost, taken back or ahead of its row in the store, whatever
\* crashes, restarts and store errors come between.
UsageHonest ==
    /\ focus = "spend" => SpendBounded /\ GlobalCapKept
    /\ focus \in {"ledger", "queue"} =>
         /\ LedgerTypeOK /\ TokensNeverNewer /\ RowIsBehind /\ LedgerConserved
         /\ ShutdownDrains /\ ChartKept

\* Every request ends, whatever fails on its way, or reads for ever from an upstream its
\* client waits for: neither the retry loop nor the provider loop of the handler can
\* spin, and no other wait is without an end.
RequestsEnd == focus = "proxy" => EveryRequestEnds
=============================================================================
