--------------------------- MODULE MCVirtqueueChain ---------------------------
EXTENDS VirtqueueChain

RW == {"READ", "WRITE"}

(* Words 0-7 hold the descriptor table, 8-9 the rings, 10-17 the arena of  *)
(* the lane and 18-19 that of another lane.                                *)
MCTables ==
  {[mappings |-> <<[transport_base |-> 0, length |-> 20, address |-> 1, local_rights |-> RW]>>,
    arenas |-> <<[queue_id |-> 1, rights |-> RW, transport_base |-> 10, length |-> 8],
                 [queue_id |-> 2, rights |-> RW, transport_base |-> 18, length |-> 2]>>]}
MCRegions == {[base |-> 0, length |-> 10, rights |-> RW], [base |-> 10, length |-> 10, rights |-> RW]}
MCRings == {[base |-> 0, length |-> 8], [base |-> 8, length |-> 2]}

(* Payloads, one empty, and indirect tables, some overlapping.             *)
Spots == {<<10, 2>>, <<11, 1>>, <<14, 2>>, <<17, 0>>}
TableSpots == {<<10, 4>>, <<12, 2>>, <<12, 4>>}

MCSegments(spots, reads, descriptors) ==
  [i \in DOMAIN spots |->
     [address |-> spots[i][1], length |-> spots[i][2],
      descriptor |-> descriptors[i], writable |-> i > reads]]

Built(spots, reads, descriptors, table, first, main) ==
  [Free EXCEPT !.segments = MCSegments(spots, reads, descriptors),
               !.head = IF first = 0 /\ table[2] # 0 THEN main ELSE descriptors[1],
               !.indirect = table[1], !.indirect_length = table[2],
               !.indirect_first = first, !.indirect_descriptor = main]

(* The direct descriptor of a split chain and the one of its table.        *)
Splits == {<<0, 1>>, <<3, 2>>}

(* One readable and one writable segment, direct, in a table or split, and *)
(* three segments of which the last two are in a table.                    *)
MCCandidates ==
  {Built(spots, 1, descriptors, <<0, 0>>, 0, 0) :
     spots \in Spots \X (Spots \cup {<<16, 1>>}), descriptors \in {<<0, 1>>, <<3, 2>>}}
  \cup {Built(spots, 1, <<0, 1>>, table, 0, main) :
     spots \in Spots \X (Spots \cup {<<16, 1>>}), table \in TableSpots, main \in {0, 2}}
  \cup {Built(spots, 1, <<split[1], 0>>, table, 1, split[2]) :
     spots \in Spots \X (Spots \cup {<<16, 1>>}), table \in TableSpots, split \in Splits}
  \cup {Built(spots, reads, <<split[1], 0, 1>>, table, 1, split[2]) :
     spots \in Spots \X {<<11, 1>>, <<16, 1>>} \X Spots, reads \in 1 .. 2,
     table \in TableSpots, split \in Splits}
===============================================================================
