--------------------------- MODULE MCBiosReceipt ---------------------------
(* Instances of BiosReceipt for TLC.                                        *)
EXTENDS BiosReceipt, TLC

CONSTANTS t1, t2  \* model values

MCThreads == {t1, t2}
MCPayTypes == 0..2

\* One receipt per shape: R(positions, discounted, unprintable, single, list, zeros)
R(n, disc, unp, single, list, zeros) ==
  [positions |-> n, discounted |-> disc, unprintable |-> unp, single |-> single,
   list |-> list, zeros |-> zeros, addRecReq |-> FALSE]

Mixed     == R(2, {2}, {}, NoType, {0, 1, 2}, {2})  \* cash, cards, a zero sum
Single    == R(1, {}, {}, 1, {}, {})
Free      == R(1, {}, {}, NoType, {0}, {0})         \* one zero payment
Unpayable == R(0, {}, {}, NoType, {}, {})
Tiny      == R(1, {1}, {1}, 0, {}, {})              \* a discount below 0.01
Plain     == {Mixed, Single, Free, Unpayable, Tiny}

WithRequisite == [Mixed EXCEPT !.discounted = {1}, !.addRecReq = TRUE]

\* t1 sends receipts while t2 sends cash documents and does everything else; of the
\* fiscal commands there is one that looks at the connection and one that does not.
OneCashier == (t1 :> {"receipt"})
              @@ (t2 :> {"insRes", "closeShift", "registerKKT_BIOS"} \cup ShortOps)
\* Only the receipt and what connects.
Receipt == (t1 :> {"receipt"}) @@ (t2 :> {"initConnection"})

AllReceipts == Plain \cup {WithRequisite}
Requisites == {WithRequisite}
Singles == {Single}

=============================================================================
