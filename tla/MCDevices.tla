------------------------------- MODULE MCDevices -------------------------------
(***************************************************************************)
(* Small instances of Devices, and the loop of remove_peer as the code has *)
(* it, which Dropped puts in a sentence.                                   *)
(***************************************************************************)
EXTENDS Devices, SequencesExt, TLC

MCSymmetry == Permutations(Tasks) \cup Permutations(Ids) \cup Permutations(Keys)

\* One line of the loop.
Keep(key, out, line) ==
  CASE line.kind = "[Peer]" -> [lines |-> Append(out.lines, line), skip |-> FALSE]
    [] out.skip -> out
    [] line.kind = "PublicKey" /\ line.key = key ->
         [lines |-> SelectSeq(out.lines, LAMBDA l : l.kind # "[Peer]"), skip |-> TRUE]
    [] OTHER -> [lines |-> Append(out.lines, line), skip |-> FALSE]

Rewritten(lines, key) ==
  FoldLeft(LAMBDA out, line : Keep(key, out, line),
           [lines |-> <<>>, skip |-> FALSE], lines).lines

\* The lines at their places, as the file has them.
InOrder(lines) ==
  [n \in 1..Cardinality(DOMAIN lines) |->
     lines[SetToSortSeq(DOMAIN lines, <)[n]]]

\* Files of up to five lines, well formed or not.
MCLines ==
  [kind : {"[Interface]", "[Peer]"}, key : {None}]
    \cup [kind : {"PublicKey", "AllowedIPs"}, key : Keys]

ASSUME DroppedByLoop ==
  LET key == CHOOSE k \in Keys : TRUE IN
    \A n \in 0..5 : \A lines \in [1..n -> MCLines] :
      InOrder(WithoutPeer(lines, key)) = Rewritten(lines, key)
===============================================================================
