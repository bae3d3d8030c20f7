------------------------------- MODULE Ostream -------------------------------
(***************************************************************************)
(* mpi3::ostream (ostream.hpp): a stream over a communicator.  Each rank   *)
(* writes into a local buffer; flushing is collective.  sync() sends the   *)
(* buffer to rank 0, which collects one message from each rank in rank     *)
(* order, lays the texts out together and writes them; all ranks then meet *)
(* in a barrier.  The layout depends on how the texts end and on what the  *)
(* previous flushes printed (doing_table, doing_formatting).               *)
(***************************************************************************)
EXTENDS Naturals, Sequences

CONSTANTS
    N,          \* comm_.size()
    Empty, Line, Cell, Raw,   \* texts: "" and texts ending in \n, \t, another
    Scripts     \* what the ranks write: sequences of [Ranks -> Texts], one a flush

Root == 0
Ranks == 0 .. N-1
Texts == {Empty} \cup Line \cup Cell \cup Raw

VARIABLES
    script,            \* the texts of this execution
    pc,                \* where each rank is
    flushes,           \* how many times sync() has returned at each rank
    net,               \* messages under way from each rank to the root, in order
    messages,          \* at the root: the texts collected so far, of rank 0, 1, ...
    doing_table,       \* at the root
    doing_formatting,  \* at the root
    output             \* what the root wrote to its stream, one block a flush

vars == <<script, pc, flushes, net, messages, doing_table, doing_formatting, output>>

Styles == {"lines", "row", "raw"}

TypeOK ==
    /\ script \in Scripts
    /\ pc \in [Ranks -> {"writing", "collecting", "barrier", "closed"}]
    /\ flushes \in [Ranks -> 0 .. Len(script)]
    /\ net \in [Ranks -> Seq(Texts)]
    /\ \A r \in Ranks : Len(net[r]) <= 1
    /\ messages \in Seq(Texts) /\ Len(messages) <= N
    /\ doing_table \in BOOLEAN /\ doing_formatting \in BOOLEAN
    /\ output \in Seq([texts: Seq(Texts), style: Styles,
                       blank: 0 .. 2, header: BOOLEAN])

Init ==
    /\ script \in Scripts
    /\ pc = [r \in Ranks |-> "writing"]
    /\ flushes = [r \in Ranks |-> 0]
    /\ net = [r \in Ranks |-> <<>>]
    /\ messages = <<>>
    /\ doing_table = FALSE
    /\ doing_formatting = FALSE
    /\ output = <<>>

\* The text in the buffer of rank r at its next flush.
Buffer(r) == script[flushes[r] + 1][r]
MoreToFlush(r) == flushes[r] < Len(script)
-----------------------------------------------------------------------------
\* Mutant: a rank with nothing to say sends nothing.
SendText(r) ==
    /\ r # Root
    /\ pc[r] = "writing" /\ MoreToFlush(r)
    /\ net' = IF Buffer(r) = Empty THEN net ELSE [net EXCEPT ![r] = Append(@, Buffer(r))]
    /\ pc' = [pc EXCEPT ![r] = "barrier"]
    /\ UNCHANGED <<script, flushes, messages, doing_table, doing_formatting, output>>

\* sync() at the other ranks: the send, then str("") and flush of the output.
Send(r) ==
    /\ r # Root
    /\ pc[r] = "writing" /\ MoreToFlush(r)
    /\ net' = [net EXCEPT ![r] = Append(@, Buffer(r))]
    /\ pc' = [pc EXCEPT ![r] = "barrier"]
    /\ UNCHANGED <<script, flushes, messages, doing_table, doing_formatting, output>>

\* sync() at the root: its own text goes in first.
StartCollecting ==
    /\ pc[Root] = "writing" /\ MoreToFlush(Root)
    /\ messages' = <<Buffer(Root)>>
    /\ pc' = [pc EXCEPT ![Root] = "collecting"]
    /\ UNCHANGED <<script, flushes, net, doing_table, doing_formatting, output>>

\* Mutant: the root takes the messages as they come.
CollectFromAny ==
    /\ pc[Root] = "collecting" /\ Len(messages) < N
    /\ \E i \in Ranks :
          /\ net[i] # <<>>
          /\ messages' = Append(messages, Head(net[i]))
          /\ net' = [net EXCEPT ![i] = Tail(@)]
    /\ UNCHANGED <<script, pc, flushes, doing_table, doing_formatting, output>>

\* matched_probe(i) and receive: the next message of rank i, for i = 1, 2, ...
Collect ==
    LET i == Len(messages)
    IN  /\ pc[Root] = "collecting" /\ i < N
        /\ net[i] # <<>>
        /\ messages' = Append(messages, Head(net[i]))
        /\ net' = [net EXCEPT ![i] = Tail(@)]
        /\ UNCHANGED <<script, pc, flushes, doing_table, doing_formatting, output>>
-----------------------------------------------------------------------------
(* The three layouts, chosen by the ends of the texts.                     *)

AllIn(texts, set) == \A i \in DOMAIN texts : texts[i] \in {Empty} \cup set

\* Which branch of sync() prints these texts.
StyleOf(texts) ==
    IF AllIn(texts, Line) THEN "lines" ELSE IF AllIn(texts, Cell) THEN "row" ELSE "raw"

\* Blank lines that go before a formatted block: one when formatting begins,
\* one more when lines end a table.
Blank(style) ==
    IF style = "raw" THEN 0
    ELSE (IF doing_formatting THEN 0 ELSE 1)
       + (IF style = "lines" /\ doing_table THEN 1 ELSE 0)

\* Mutant: the header goes before every row that starts formatted output.
HeaderWhenFormatting(style) == style = "row" /\ ~doing_formatting

\* The first row of a table is preceded by a row with the names of the ranks.
Header(style) == style = "row" /\ ~doing_table

\* With all messages in, the root prints them and goes to the barrier.
PrintRound ==
    LET style == StyleOf(messages)
    IN  /\ pc[Root] = "collecting" /\ Len(messages) = N
        /\ output' = Append(output, [texts |-> messages, style |-> style,
                                     blank |-> Blank(style), header |-> Header(style)])
        /\ doing_formatting' = (style # "raw")
        /\ doing_table' = CASE style = "lines" -> FALSE
                            [] style = "row"   -> TRUE
                            [] style = "raw"   -> doing_table
        /\ messages' = <<>>
        /\ pc' = [pc EXCEPT ![Root] = "barrier"]
        /\ UNCHANGED <<script, flushes, net>>

\* The flushes at which rank r has reached the barrier.
Arrived(r) == flushes[r] + (IF pc[r] = "barrier" THEN 1 ELSE 0)

\* Mutant: sync() without its barrier.
LeaveAtOnce(r) ==
    /\ pc[r] = "barrier"
    /\ flushes' = [flushes EXCEPT ![r] = @ + 1]
    /\ pc' = [pc EXCEPT ![r] = "writing"]
    /\ UNCHANGED <<script, net, messages, doing_table, doing_formatting, output>>

\* comm_.barrier() lets r go once every rank has come to the same flush.
LeaveBarrier(r) ==
    /\ pc[r] = "barrier"
    /\ \A q \in Ranks : Arrived(q) >= Arrived(r)
    /\ flushes' = [flushes EXCEPT ![r] = @ + 1]
    /\ pc' = [pc EXCEPT ![r] = "writing"]
    /\ UNCHANGED <<script, net, messages, doing_table, doing_formatting, output>>

\* The stream is destroyed after its last flush.
Close(r) ==
    /\ pc[r] = "writing" /\ ~MoreToFlush(r)
    /\ pc' = [pc EXCEPT ![r] = "closed"]
    /\ UNCHANGED <<script, flushes, net, messages, doing_table, doing_formatting, output>>

Closed == (\A r \in Ranks : pc[r] = "closed") /\ UNCHANGED vars

Next ==
    \/ StartCollecting \/ Collect \/ PrintRound \/ Closed
    \/ \E r \in Ranks : Send(r) \/ LeaveBarrier(r) \/ Close(r)

Spec == Init /\ [][Next]_vars

\* Every rank goes on with its calls, and messages arrive.
Fairness ==
    /\ WF_vars(StartCollecting) /\ WF_vars(Collect) /\ WF_vars(PrintRound)
    /\ \A r \in Ranks : WF_vars(Send(r)) /\ WF_vars(LeaveBarrier(r))

FairSpec == Spec /\ Fairness
-----------------------------------------------------------------------------
(* Properties                                                              *)

\* The k-th block the root prints is made of what each rank wrote before its
\* k-th flush, in rank order: a fast rank's next text never joins the round of
\* a slow one, and none is lost, repeated or taken for another rank's.
RoundIntact ==
    \A k \in DOMAIN output : output[k].texts = [i \in 1 .. N |-> script[k][i-1]]

\* When a flush returns anywhere, its texts are printed.
FlushMeansPrinted == \A r \in Ranks : flushes[r] <= Len(output)

\* Before the k-th block, the blocks printed so far leave a table open: a row
\* with no lines after it.
TableOpen(k) ==
    \E j \in 1 .. k-1 :
        output[j].style = "row" /\ \A i \in j+1 .. k-1 : output[i].style # "lines"

\* Layout over the whole output: a table has its header exactly once, above its
\* first row, and only lines end a table (raw text between two rows does not);
\* a blank line goes where formatted output begins and where a table ends.
LayoutFollowsOutput ==
    \A k \in DOMAIN output :
        LET formatted == output[k].style # "raw"
            begins == k = 1 \/ output[k-1].style = "raw"
            endsTable == output[k].style = "lines" /\ TableOpen(k)
        IN  /\ output[k].header <=> output[k].style = "row" /\ ~TableOpen(k)
            /\ output[k].blank = (IF formatted /\ begins THEN 1 ELSE 0)
                               + (IF endsTable THEN 1 ELSE 0)

\* Every flush returns, at the root and at the others, whatever was written;
\* so the collective calls do not lock each other out.
FlushReturns ==
    \A r \in Ranks : pc[r] \in {"collecting", "barrier"} ~> pc[r] = "writing"
=============================================================================
