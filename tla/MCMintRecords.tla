--------------------------- MODULE MCMintRecords ---------------------------
(***************************************************************************)
(* Small instances of MintRecords for TLC: two transactions in two blocks, *)
(* with logs at the same index, and every kind of log.                     *)
(***************************************************************************)
EXTENDS MintRecords

MCPositions == {[block |-> 1, tx |-> "t1", index |-> 0],
                [block |-> 1, tx |-> "t1", index |-> 1],
                [block |-> 2, tx |-> "t2", index |-> 0]}

Form(kind, tokens, quantities) ==
  [kind |-> kind, prefix |-> "", removed |-> FALSE, topics |-> 4, minter |-> TRUE,
   legible |-> TRUE, tokens |-> tokens, quantities |-> quantities]

Standard == {Form("transfer", <<7>>, <<>>),
             Form("single", <<7>>, <<2>>),
             Form("batch", <<7, 8, 7>>, <<1, 2, 3>>),
             Form("consecutive", <<7, 8>>, <<>>)}

Unusual == {Form("single", <<8>>, <<0>>),             \* refused, as are the
            Form("batch", <<7, 8>>, <<1>>),           \* next four
            Form("consecutive", <<8, 7>>, <<>>),
            Form("consecutive", <<6, 8>>, <<>>),
            [Form("batch", <<7>>, <<1>>) EXCEPT !.legible = FALSE],
            Form("batch", <<>>, <<>>),
            Form("other", <<>>, <<>>),
            [Form("transfer", <<7>>, <<>>) EXCEPT !.topics = 3],
            [Form("transfer", <<7>>, <<>>) EXCEPT !.minter = FALSE],
            [Form("single", <<8>>, <<1>>) EXCEPT !.removed = TRUE],
            [Form("transfer", <<8>>, <<>>) EXCEPT !.prefix = "0x"]}

MCForms == Standard \cup Unusual

\* Logs as a node writes them.
MCNodeForms == {[f EXCEPT !.prefix = "0x"] : f \in Standard}
=============================================================================
