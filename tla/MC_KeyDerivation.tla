------------------------- MODULE MC_KeyDerivation -------------------------
EXTENDS KeyDerivation

CONSTANTS w1, w2, s1, s2, pub1

(***************************************************************************)
(* An 11-bit index: the hardened offset is 2^10 = 1024 and writeUInt32BE's *)
(* bound 2047, so 44', 444' and 784' fit as their 32-bit originals do,     *)
(* and the last segment ranges over 0, 1023 (the largest that fits, at     *)
(* exactly 2047), 1024 = 2^(Width-1) (the smallest that overflows, the     *)
(* counterpart of 2^31) and 2048, which a wrapping write would alias to 0. *)
(* 0' and 00' parse to the same number; a second ' is refused.            *)
(***************************************************************************)
Seg(d, q) == [digits |-> d, quotes |-> q]

MCPaths ==
    {[head |-> "m", segs |-> <<Seg(p, 1), Seg(<<7, 8, 4>>, 1), Seg(a, 1), Seg(<<0>>, 1), Seg(x, q)>>] :
        p \in {<<4, 4>>, <<4, 4, 4>>},
        a \in {<<0>>, <<0, 0>>, <<3>>},
        x \in {<<0>>, <<1, 0, 2, 3>>, <<1, 0, 2, 4>>, <<2, 0, 4, 8>>},
        q \in {1, 2}}

\* Two phrases, one also spelt with a capital, each written tight
\* ("w1 w2") and padded ("  w1   w2 \t").
MCWords ==
    {<<[w |-> w1, up |-> FALSE], [w |-> w2, up |-> FALSE]>>,
     <<[w |-> w1, up |-> TRUE], [w |-> w2, up |-> FALSE]>>,
     <<[w |-> w2, up |-> FALSE], [w |-> w1, up |-> FALSE]>>}

MCMnemonics ==
    {[lead |-> sp[1], words |-> ws, gaps |-> [j \in {2} |-> sp[2]], trail |-> sp[3]] :
        ws \in MCWords, sp \in {<<0, 1, 0>>, <<2, 3, 2>>}}

\* Exports as the wallet writes them, current and legacy, and a bad schema.
MCExports ==
    {[schema |-> "ED25519", privateKey |-> <<s1>>],
     [schema |-> "ED25519", privateKey |-> <<s1, pub1>>],
     [schema |-> "Secp256k1", privateKey |-> <<s2>>],
     [schema |-> "Secp256r1", privateKey |-> <<s1>>],
     [schema |-> "unknown", privateKey |-> <<s2>>]}

MCCalls ==
    {[fn |-> "fromDerivePath", path |-> p, mnemonic |-> m] : p \in MCPaths, m \in MCMnemonics}
    \cup {[fn |-> "fromExportedKeypair", exported |-> e] : e \in MCExports}

=============================================================================
