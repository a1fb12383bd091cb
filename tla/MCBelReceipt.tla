---------------------------- MODULE MCBelReceipt ----------------------------
(* An instance of BelReceipt for TLC.                                       *)
EXTENDS BelReceipt, TLC

CONSTANTS t1, t2  \* model values

MCThreads == {t1, t2}
MCPayTypes == 0..2

\* One receipt per shape: R(positions, marked, margin, single, list, zeros)
R(n, marked, margin, single, list, zeros) ==
  [positions |-> n, marked |-> marked, margin |-> margin, single |-> single,
   list |-> list, zeros |-> zeros]

Mixed     == R(2, {1}, TRUE, NoType, {0, 1, 2}, {0, 2})  \* a card, zero cash, a zero sum
Single    == R(1, {}, FALSE, 1, {}, {})
Unpaid    == R(1, {}, FALSE, NoType, {1}, {1})           \* one zero sum that is not cash
Unpayable == R(0, {}, FALSE, NoType, {}, {})
MCReceipts == {Mixed, Single, Unpaid, Unpayable}

\* t1 sends receipts while t2 sends cash documents and does everything else; the two
\* commands are the two ways the answer is looked at.
MCCalls == (t1 :> {"receipt"})
           @@ (t2 :> {"insRes", "openShift", "closeShift"} \cup ShortOps)

=============================================================================
