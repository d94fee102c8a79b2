----------------------------- MODULE IngestQueue -----------------------------
(***************************************************************************)
(* The document ingest queue of src/ingest-queue.ts: ingestions and        *)
(* deletions of one document run one at a time in the order they were      *)
(* asked for, a text goes to the daemon chunk by chunk (the first replaces *)
(* the document, the others are appended), a chunk that fails is retried,  *)
(* and one that is rejected as too large is cut smaller.                   *)
(*                                                                         *)
(* A character is a class: CR stands for a newline, SP for a space, HI and *)
(* LO for the two halves of a surrogate pair, AB for any other code unit.  *)
(* What the daemon stores of a document is a sequence of pieces of texts.  *)
(* A failed call is served before it is made again, or never; a chunk that *)
(* is stored in part counts as stored.  Chunking switched off behaves like *)
(* a limit that no text reaches.                                           *)
(***************************************************************************)
EXTENDS Integers, Sequences, FiniteSets

CONSTANTS
  Docs,           \* the documents
  AB, SP, CR, HI, LO,
  Work,           \* the operations in the order they are asked for: records
                  \* of a document and a text; an empty text is a deletion
  CharsPerToken,  \* 4 in the code
  ProbeLimit,     \* how far back a boundary is looked for: 256 in the code
  ChunkTokens,    \* the limit an ingestion starts from
  MaxRetries,
  MaxFaults       \* bound: attempts that fail or are rejected

Chars == {AB, SP, CR, HI, LO}

(* A text is well formed: every HI is followed by LO, every LO follows HI. *)
WellFormed(text) ==
  /\ \A i \in DOMAIN text : text[i] = HI => i + 1 \in DOMAIN text /\ text[i + 1] = LO
  /\ \A i \in DOMAIN text : text[i] = LO => i > 1 /\ text[i - 1] = HI

ASSUME QueueAssumption ==
  /\ Cardinality(Chars) = 5
  /\ Work \in Seq([doc : Docs, text : Seq(Chars)])
  /\ \A o \in DOMAIN Work : WellFormed(Work[o].text)
  /\ CharsPerToken \in Nat \ {0} /\ ProbeLimit \in Nat \ {0}
  /\ ChunkTokens \in Nat \ {0} /\ {MaxRetries, MaxFaults} \subseteq Nat

VARIABLES
  op,        \* op[o]: the state of operation o
  tail,      \* tail[d]: pendingByDocument, the last operation, 0 when absent
  content,   \* content[d]: the pieces the daemon holds of document d
  faults     \* bound: attempts that failed so far

queueVars == <<op, tail, content, faults>>

Ops == DOMAIN Work
Doc(o) == Work[o].doc
Text(o) == Work[o].text
Size(o) == Len(Text(o))

-----------------------------------------------------------------------------
(* splitIntoChunks: how much of a text its first chunk takes.              *)

MaxChars(tokens) == IF tokens * CharsPerToken < 2 THEN 2 ELSE tokens * CharsPerToken

(* A cut at n would separate the halves of a pair. *)
\* mutation: characters are thought to be one code unit long
SplitsNever(text, n) == FALSE

Splits(text, n) == text[n] = HI /\ text[n + 1] = LO

Last(S) == CHOOSE p \in S : \A q \in S : q <= p

(* The best of three boundaries before the hard end: a blank line, a       *)
(* newline, a space; each is looked for if the one before left the end.    *)
Cut(text, most) ==
  LET end == IF Splits(text, most) THEN most - 1 ELSE most
      near == {p \in 2..end : p > end - ProbeLimit}
      blank == {p \in near : text[p] = CR /\ p + 1 <= end /\ text[p + 1] = CR}
      line == {p \in near : text[p] = CR}
      space == {p \in near : text[p] = SP}
      atBlank == IF blank # {} THEN Last(blank) + 1 ELSE end
      atLine == IF atBlank = end /\ line # {} THEN Last(line) ELSE atBlank
  IN  IF atLine = end /\ space # {} THEN Last(space) - 1 ELSE atLine

FirstChunk(text, tokens) ==
  IF Len(text) <= MaxChars(tokens) THEN Len(text) ELSE Cut(text, MaxChars(tokens))

(* The chunk of operation o that starts at its offset. *)
Piece(o) ==
  LET from == op[o].offset
  IN  [of |-> o, from |-> from,
       to |-> from + FirstChunk(SubSeq(Text(o), from + 1, Size(o)), op[o].limit)]

-----------------------------------------------------------------------------
(* runDocumentOperation: one chain of operations per document.             *)

NewOp == [pc |-> "new", after |-> 0, offset |-> 0, limit |-> ChunkTokens,
          tries |-> 0, lost |-> FALSE]

QueueInit ==
  /\ op = [o \in Ops |-> NewOp]
  /\ tail = [d \in Docs |-> 0]
  /\ content = [d \in Docs |-> << >>]
  /\ faults = 0

Settled(o) == op[o].pc \in {"ok", "failed"}
Active(o) == op[o].pc = "sending"

Enqueue(o) ==
  /\ op[o].pc = "new" /\ \A p \in Ops : p < o => op[p].pc # "new"
  /\ op' = [op EXCEPT ![o] = [@ EXCEPT !.pc = "queued", !.after = tail[Doc(o)]]]
  /\ tail' = [tail EXCEPT ![Doc(o)] = o]
  /\ UNCHANGED <<content, faults>>

(* A task starts when the one before it has settled, whatever its result. *)
\* mutation: a failed operation is not followed by another
ReleasedOnSuccess(o) == op[o].after # 0 => op[op[o].after].pc = "ok"

Released(o) == op[o].after # 0 => Settled(op[o].after)

Begin(o) ==
  /\ op[o].pc = "queued" /\ Released(o)
  /\ op' = [op EXCEPT ![o].pc = "sending"]
  /\ UNCHANGED <<tail, content, faults>>

(* The map forgets a chain whose last operation has settled. *)

IsLast(o) == tail[Doc(o)] = o

ForgetChain(o) ==
  /\ Settled(o) /\ IsLast(o) /\ tail[Doc(o)] # 0
  /\ tail' = [tail EXCEPT ![Doc(o)] = 0]
  /\ UNCHANGED <<op, content, faults>>

-----------------------------------------------------------------------------
(* Attempts.  What one changes in the daemon, when it is served:           *)

IsDelete(o) == Size(o) = 0
Served(o) ==
  IF IsDelete(o) THEN << >>
  ELSE IF op[o].offset = 0 THEN <<Piece(o)>>
  ELSE Append(content[Doc(o)], Piece(o))

Holds(o, pieces) == content' = [content EXCEPT ![Doc(o)] = pieces]

(* Accepted: the next chunk, with all its retries, or the end. *)
\* mutation: the rest of a text is not sent
AdvancedToEnd(o) == [op[o] EXCEPT !.pc = "ok"]

Advanced(o) ==
  IF IsDelete(o) \/ Piece(o).to = Size(o)
    THEN [op[o] EXCEPT !.pc = "ok"]
    ELSE [op[o] EXCEPT !.offset = Piece(o).to, !.tries = 0]

Accepted(o) ==
  /\ Active(o)
  /\ op' = [op EXCEPT ![o] = Advanced(o)]
  /\ Holds(o, Served(o))
  /\ UNCHANGED <<tail, faults>>

(* withRetry: the call fails, served or not, and is made again, or the     *)
(* daemon answers ok = false.                                              *)
\* mutation: a chunk that fails is skipped
SkippedOnFailure(o) == Advanced(o)

AfterFailure(o) ==
  IF op[o].tries = MaxRetries THEN [op[o] EXCEPT !.pc = "failed"]
  ELSE [op[o] EXCEPT !.tries = @ + 1]

OpFailed(o) ==
  /\ Active(o) /\ faults < MaxFaults /\ faults' = faults + 1
  /\ \/ Holds(o, Served(o)) /\ op' = [op EXCEPT ![o] = [AfterFailure(o) EXCEPT !.lost = TRUE]]
     \/ UNCHANGED content /\ op' = [op EXCEPT ![o] = AfterFailure(o)]
  /\ UNCHANGED tail

(* The daemon rejects every node of a chunk and names a lower limit: the   *)
(* same offset is sent again, cut smaller.                                 *)
Shrunk(o) ==
  /\ Active(o) /\ ~ IsDelete(o) /\ faults < MaxFaults /\ faults' = faults + 1
  /\ \E limit \in 1..(op[o].limit - 1) :
       op' = [op EXCEPT ![o] = [@ EXCEPT !.limit = limit, !.tries = 0]]
  /\ \/ UNCHANGED content
     \/ op[o].offset = 0 /\ Holds(o, << >>)
  /\ UNCHANGED tail

(* It rejects a chunk in part, or without a lower limit: the ingestion     *)
(* fails and what follows is not sent.  A piece stored in part counts as   *)
(* stored.                                                                 *)
Rejected(o) ==
  /\ Active(o) /\ ~ IsDelete(o) /\ faults < MaxFaults /\ faults' = faults + 1
  /\ op' = [op EXCEPT ![o].pc = "failed"]
  /\ \/ UNCHANGED content
     \/ op[o].offset = 0 /\ Holds(o, << >>)
     \/ Holds(o, Served(o))
  /\ UNCHANGED tail

(* What an operation does on its own, in this order.                       *)
Advances(o) ==
  Begin(o) \/ Accepted(o) \/ OpFailed(o) \/ Shrunk(o) \/ Rejected(o) \/ ForgetChain(o)

QueueNext == \E o \in Ops : Enqueue(o) \/ Advances(o)

(* Promise callbacks run, and every call ends, one way or another: the     *)
(* transport has a deadline.                                               *)
QueueFairness == \A o \in Ops : WF_queueVars(Advances(o))

QueueSpec == QueueInit /\ [][QueueNext]_queueVars /\ QueueFairness

-----------------------------------------------------------------------------
(* Properties.                                                             *)

QueueTypeOK ==
  /\ op \in [Ops -> [pc : {"new", "queued", "sending", "ok", "failed"}, after : {0} \cup Ops,
                     offset : Nat, limit : 1..ChunkTokens, tries : 0..MaxRetries,
                     lost : BOOLEAN]]
  /\ tail \in [Docs -> {0} \cup Ops]
  /\ content \in [Docs -> Seq([of : Ops, from : Nat, to : Nat])]
  /\ faults \in 0..MaxFaults

(* runDocumentOperation: two operations of one document never run at the   *)
(* same time, though the map forgets chains while others are queued.       *)
OneAtATimePerDocument ==
  \A o, p \in Ops : Active(o) /\ Active(p) /\ Doc(o) = Doc(p) => o = p

(* ingestChunks: what the daemon holds of a document is contiguous.  It    *)
(* starts at the beginning of one text, and each piece starts where the    *)
(* one before it ended, or where that one started if an answer was lost.   *)
NoGap ==
  \A d \in Docs : \A i \in DOMAIN content[d] :
    LET piece == content[d][i]
        prev == content[d][i - 1]
    IN  IF i = 1 THEN piece.from = 0
        ELSE /\ piece.of = prev.of
             /\ piece.from = prev.to \/ (piece.from = prev.from /\ op[piece.of].lost)

(* An ingestion that succeeded and was not followed by another operation   *)
(* has left its whole text, and a deletion nothing: a caller may take the  *)
(* file for stored.                                                        *)
SuccessMeansStored ==
  \A o \in Ops :
    op[o].pc = "ok" /\ (\A p \in Ops : p > o /\ Doc(p) = Doc(o) => op[p].pc \in {"new", "queued"}) =>
      LET pieces == content[Doc(o)]
      IN  IF IsDelete(o) THEN pieces = << >>
          ELSE /\ pieces # << >> /\ pieces[Len(pieces)].to = Size(o)
               /\ \A i \in DOMAIN pieces : pieces[i].of = o

(* splitIntoChunks: no chunk ends between the halves of a surrogate pair,  *)
(* which the wire would turn into two replacement characters, and none is  *)
(* empty.                                                                  *)
WholeCharacters ==
  \A d \in Docs : \A i \in DOMAIN content[d] :
    LET piece == content[d][i]
    IN  /\ piece.from < piece.to
        /\ piece.to < Size(piece.of) => ~ (Text(piece.of)[piece.to] = HI)

(* Every operation that is asked for settles, whatever the ones before it  *)
(* did, and the map of chains does not keep it.  The operations are        *)
(* finitely many and never asked for twice, so "in the end, for good".     *)
EveryOpSettles ==
  <>[](\A o \in Ops : op[o].pc = "new" \/ (Settled(o) /\ tail[Doc(o)] # o))
=============================================================================
