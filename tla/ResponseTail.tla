---------------------------- MODULE ResponseTail ----------------------------
(***************************************************************************)
(* statusRecorder (internal/proxy/proxy.go): every response passes through *)
(* it unbuffered while it keeps the end of the body, from which the token  *)
(* count and the durations that quotas, costs and analytics use are read   *)
(* after the last byte.  Bytes are abstracted to the seven that matter:    *)
(*   "{" "}"  begin and end of a JSON object     "n"  newline              *)
(*   "1" "2"  a token count inside an object     "e"  an embedding         *)
(*   "t"      a duration                         "x"  anything else        *)
(***************************************************************************)
EXTENDS Integers, Sequences, SequencesExt, FiniteSets

CONSTANTS
    Bodies,         \* response bodies, as sequences of bytes
    TailMax,        \* tailMax
    EmbedTailMax,   \* embedTailMax
    MaxChunk        \* bound: bytes per Write

VARIABLES
    pending,        \* bytes the upstream still sends
    forwarded,         \* history: bytes written to the client
    tail, sawNewline, truncatedTail, heldLine,
    over            \* "no", "complete" or "aborted"
tailVars == <<pending, forwarded, tail, sawNewline, truncatedTail, heldLine, over>>

----------------------------------------------------------------------------
(* Lines and documents of a byte sequence.                                    *)

\* The lines of s, as pairs <<first, last>>; the last one may lack its newline.
Lines(s) == {l \in (1 .. Len(s)) \X (1 .. Len(s)) :
                /\ l[1] = 1 \/ s[l[1] - 1] = "n"
                /\ l[2] >= l[1] /\ \A i \in l[1] .. l[2] : s[i] # "n"
                /\ l[2] = Len(s) \/ s[l[2] + 1] = "n"}
JSONLines(s) == {l \in Lines(s) : s[l[1]] = "{"}
LastOf(ls) == CHOOSE l \in ls : \A k \in ls : k[1] <= l[1]

\* Exactly one object.
Parses(doc) == /\ Len(doc) >= 2 /\ doc[1] = "{" /\ doc[Len(doc)] = "}"
               /\ \A i \in 2 .. Len(doc) - 1 : doc[i] \notin {"{", "}"}
Has(doc, b) == \E i \in DOMAIN doc : doc[i] = b

\* usageDoc.count: a count, "none" to keep looking, "unknown" for an embedding.
CountIn(doc) == IF Has(doc, "2") THEN "2" ELSE IF Has(doc, "1") THEN "1"
              ELSE IF Has(doc, "e") THEN "unknown" ELSE "none"

TrimSpace(s) == LET ink == {i \in DOMAIN s : s[i] # "n"}
                IN  IF ink = {} THEN <<>>
                    ELSE SubSeq(s, CHOOSE i \in ink : \A j \in ink : i <= j, CHOOSE i \in ink : \A j \in ink : j <= i)
WholeTailJSON(s) == Parses(TrimSpace(s))

----------------------------------------------------------------------------
(* What is read from the tail.                                                *)

\* From the last line back: an unreadable object ends the search.
ScanLines(s, giveUp) ==
    LET ls == JSONLines(s)
        Doc(l) == SubSeq(s, l[1], l[2])
        bad == {l \in ls : ~Parses(Doc(l))}
        good == {l \in ls \ bad : CountIn(Doc(l)) # "none"}
        later == {l \in good : \A b \in bad : b[1] < l[1]}
    IN  IF later # {} THEN CountIn(Doc(LastOf(later)))
        ELSE IF bad # {} THEN "unknown" ELSE giveUp

TokenCount(s, aborted) ==
    LET giveUp == IF aborted THEN "unknown" ELSE "0"
        whole == CountIn(TrimSpace(s))
    IN  IF WholeTailJSON(s) THEN IF whole # "none" THEN whole ELSE giveUp
        ELSE ScanLines(s, giveUp)

\* evalDurationMs and promptEvalDurationMs step over what they cannot read.
EvalDuration(s) ==
    IF WholeTailJSON(s) THEN Has(s, "t")
    ELSE \E l \in JSONLines(s) : LET doc == SubSeq(s, l[1], l[2]) IN Parses(doc) /\ Has(doc, "t")

----------------------------------------------------------------------------
(* What is kept.                                                              *)

LastJSONLineStart(s) == IF JSONLines(s) = {} THEN Len(s) + 1 ELSE LastOf(JSONLines(s))[1]

Keep(s, from) == SubSeq(s, from, Len(s))

\* Mutant: the last line is not protected.
TrimTailUnprotected(s) ==
    LET cut == Len(s) - TailMax + 1
        next == {i \in cut .. Len(s) : s[i] = "n"}
        from == IF cut > 1 /\ s[cut - 1] # "n" /\ next # {}
                THEN 1 + CHOOSE i \in next : \A j \in next : i <= j ELSE cut
    IN  [tail |-> Keep(s, from), truncated |-> FALSE, held |-> FALSE]

TrimTail(s) ==
    LET cut == Len(s) - TailMax + 1
        next == {i \in cut .. Len(s) : s[i] = "n"}
        atLine == IF cut > 1 /\ s[cut - 1] # "n" /\ next # {}
                  THEN 1 + CHOOSE i \in next : \A j \in next : i <= j ELSE cut
        from == IF atLine > LastJSONLineStart(s) THEN LastJSONLineStart(s) ELSE atLine
        kept == Keep(s, from)
    IN  IF Len(kept) > EmbedTailMax THEN [tail |-> <<>>, truncated |-> TRUE, held |-> FALSE]
        ELSE [tail |-> kept, truncated |-> FALSE, held |-> Len(kept) > TailMax]

TailInit ==
    /\ pending \in Bodies /\ forwarded = <<>> /\ tail = <<>>
    /\ sawNewline = FALSE /\ truncatedTail = FALSE /\ heldLine = FALSE /\ over = "no"

Write(k) ==
    LET b == SubSeq(pending, 1, k)
        grown == tail \o b
        newline == Has(b, "n")
    IN  /\ over = "no" /\ k <= Len(pending)
        /\ pending' = Keep(pending, k + 1) /\ forwarded' = forwarded \o b
        /\ sawNewline' = (sawNewline \/ newline)
        /\ IF ~sawNewline /\ ~newline
           THEN IF Len(tail) < EmbedTailMax THEN tail' = grown /\ UNCHANGED <<truncatedTail, heldLine>>
                ELSE truncatedTail' = TRUE /\ UNCHANGED <<tail, heldLine>>
           ELSE IF truncatedTail THEN UNCHANGED <<tail, truncatedTail, heldLine>>
           ELSE IF Len(grown) <= TailMax THEN tail' = grown /\ UNCHANGED <<truncatedTail, heldLine>>
           ELSE IF heldLine /\ ~newline
           THEN IF Len(grown) > EmbedTailMax
                THEN tail' = <<>> /\ truncatedTail' = TRUE /\ heldLine' = FALSE
                ELSE tail' = grown /\ UNCHANGED <<truncatedTail, heldLine>>
           ELSE LET t == TrimTail(grown)
                IN  tail' = t.tail /\ truncatedTail' = t.truncated /\ heldLine' = t.held
        /\ UNCHANGED over

\* serveAndRecoverAbort: the stream ended, or died at any point.
End ==
    /\ over = "no"
    /\ \/ pending = <<>> /\ over' = "complete"
       \/ over' = "aborted"
    /\ UNCHANGED <<pending, forwarded, tail, sawNewline, truncatedTail, heldLine>>

TailNext == (\E k \in 1 .. MaxChunk : Write(k)) \/ End
TailSpec == TailInit /\ [][TailNext]_tailVars

----------------------------------------------------------------------------
Recorded == TokenCount(tail, over = "aborted" \/ truncatedTail)

(* What is kept of a response never grows past embedTailMax and one write,    *)
(* however long the response and wherever its writes are cut                  *)
(* (statusRecorder.Write).                                                    *)
TailBounded == Len(tail) <= EmbedTailMax + MaxChunk

(* The count charged for a response is the one its last object reports, or    *)
(* unknown: trimming never turns a reported count into a zero or into the     *)
(* count of an earlier line, and a response that died is never charged zero   *)
(* (trimTail, lastJSONLineStart, tokenCount).                                 *)
CountHonest ==
    /\ over = "complete" /\ ~truncatedTail => Recorded = TokenCount(forwarded, FALSE)
    /\ over = "complete" /\ truncatedTail => Recorded \in {"unknown", TokenCount(forwarded, FALSE)}
    /\ over = "aborted" => Recorded # "0" /\ Recorded \in {"unknown", TokenCount(forwarded, TRUE)}
    /\ over = "complete" /\ EvalDuration(tail) => EvalDuration(forwarded)
=============================================================================
