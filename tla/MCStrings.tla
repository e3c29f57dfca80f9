----------------------------- MODULE MCStrings ------------------------------
EXTENDS Strings, BstrStream
MCTexts == {<<>>, <<97>>, <<65, 32>>}
MCBlocks == {[i \in 1 .. 31 |-> 97]}
MCNumbers == {-1, 0, 1, 3, 31}
MCSources == {<<97, 32, 65>>, <<32, 32, 65, 32>>}
MCTerms == {<<>>, <<32>>, <<32, 65>>}
MCUnread == {<<32>>}

MCInit == Init /\ StreamInit
MCNext ==
  \/ stream = Closed /\ Next /\ UNCHANGED streamVars
  \/ b = Gone /\ call = NoCall /\ ret = OK /\ StreamNext /\ UNCHANGED vars
MCSpec == MCInit /\ [][MCNext]_<<vars, streamVars>>
=============================================================================
