------------------------------ MODULE MCOstream ------------------------------
(***************************************************************************)
(* Ostream for TLC: three ranks, three flushes, each of one of these kinds.*)
(* What it has in common with Communicator goes by another name, because   *)
(* ObjectProofs extends both.                                              *)
(***************************************************************************)
EXTENDS Naturals, Sequences

CONSTANTS
    N,                        \* comm_.size()
    Empty, Line, Cell, Raw,   \* texts: "" and texts ending in \n, \t, another
    Scripts                   \* what the ranks write, a function of the ranks for each flush

VARIABLES script, pc, flushes, net, messages, doing_table, doing_formatting, output

Printing == INSTANCE Ostream

ASSUME RanksAssumption == N \in Nat \ {0}
ASSUME TextAssumption == Empty \notin Line \cup Cell \cup Raw
ASSUME ScriptAssumption == Scripts \subseteq Seq([Printing!Ranks -> Printing!Texts])

PrintingSpec == Printing!FairSpec

\* The k-th block printed is made of what each rank wrote before its k-th flush.
RoundIntact == Printing!RoundIntact

\* When a flush returns anywhere, its texts are printed.
FlushMeansPrinted == Printing!FlushMeansPrinted

\* Headers and blank lines are where the whole output asks for them.
LayoutFollowsOutput == Printing!LayoutFollowsOutput

\* Every flush returns.
FlushReturns == Printing!FlushReturns
-----------------------------------------------------------------------------
CONSTANTS line1, line2, cell1, cell2, raw1, raw2, silence

MCLine == {line1, line2}
MCCell == {cell1, cell2}
MCRaw == {raw1, raw2}

Flush(t0, t1, t2) == [r \in 0 .. 2 |-> CASE r = 0 -> t0 [] r = 1 -> t1 [] r = 2 -> t2]

\* All silent; lines from some; lines from all; a row; a row with a gap; raw text
\* from one; raw text among lines; lines and cells together.
Flushes == {
    Flush(silence, silence, silence),
    Flush(silence, line1, line2), Flush(line1, line2, line2),
    Flush(cell1, cell2, cell1), Flush(silence, cell2, cell1),
    Flush(silence, raw1, silence), Flush(raw1, line1, raw2),
    Flush(line1, silence, cell1) }

MCScripts == [1 .. 3 -> Flushes]
=============================================================================
