------------------------------ MODULE MergeLoop ------------------------------
(***************************************************************************)
(* mergeTempHeaders of vsl/parser.go as the loop it is: the temp headers   *)
(* in the order of their ids, for each the received values and then the    *)
(* processed ones, each through Add or Delete.  TransactionParser uses a   *)
(* closed form of it (MergeTempHeaders); this module states that the two   *)
(* agree on every pair of maps the parser merges.                          *)
(***************************************************************************)
EXTENDS TransactionParser

\* Headers.GetSortedHeaders: the names, by id.
GetSortedHeaders(h) ==
  [i \in 1..Cardinality(Present(h)) |->
     CHOOSE n \in Present(h) : Cardinality({m \in Present(h) : h[m].id < h[n].id}) = i - 1]

\* The loop over the received values of a header.
MergeReceived(h, n, values) ==
  LET merged[i \in 0..Len(values)] ==
        IF i = 0 THEN h ELSE Add(merged[i - 1], n, values[i], "Received")
  IN  merged[Len(values)]

\* The loop over its other values.
MergeProcessed(h, n, values) ==
  LET merged[i \in 0..Len(values)] ==
        IF i = 0 THEN h
        ELSE IF values[i].state = "Deleted" THEN Delete(merged[i - 1], n)
        ELSE Add(merged[i - 1], n, values[i].value, values[i].state)
  IN  merged[Len(values)]

\* One header of the loop over the sorted headers.
MergeHeader(h, n, header) ==
  MergeProcessed(MergeReceived(h, n, header.receivedValues), n, header.values)

MergeTempHeadersLoop(h, temp) ==
  LET sorted == GetSortedHeaders(temp)
      merged[i \in 0..Len(sorted)] ==
        IF i = 0 THEN h ELSE MergeHeader(merged[i - 1], sorted[i], temp[sorted[i]])
  IN  merged[Len(sorted)]

\* At every point where the parser may merge, into either map, the closed form
\* the specification and its proofs use is what the loop computes: values,
\* states, received values and ids (parser.go, 355-387).
MergeIsTheLoop ==
  pc = "inner" =>
    \A h \in {tx.reqHeaders, tx.respHeaders} :
      MergeTempHeaders(h, tempHeaders) = MergeTempHeadersLoop(h, tempHeaders)

=============================================================================
