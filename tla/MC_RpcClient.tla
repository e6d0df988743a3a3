--------------------------- MODULE MC_RpcClient ---------------------------
EXTENDS RpcClient

CONSTANTS n1, n2, d1, d2, c1, c2

\* Up to three [seq, digest] pairs; a digest may come twice (the explorer
\* concatenates the from- and to-address queries).
MCTxLists == UNION {[1 .. k -> [seq : {1, 2}, digest : {d1, d2}]] : k \in 0 .. 3}

MCRequests == [net : {n1, n2}, txs : MCTxLists]

=============================================================================
