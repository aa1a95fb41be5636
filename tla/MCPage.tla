------------------------------ MODULE MCPage --------------------------------
EXTENDS Page

\* Two tabs of one browser and one of another.
MCDeviceOf == [t \in Tabs |-> IF t = "c" THEN 2 ELSE 1]

\* What autocomplete returns for each text, without what was deleted.
MCSuggested ==
    [t \in Texts |->
        LET all == CASE t = ""   -> <<"d", "a/">>
                     [] t = "a"  -> <<"a/">>
                     [] t = "a/" -> <<"a/b">>
                     [] OTHER    -> <<>>
        IN [r \in SUBSET Deletable |-> SelectSeq(all, LAMBDA u : u \notin r)]]
=============================================================================
