---------------------------- MODULE MCEntryStore ----------------------------
(* Values of the constants of EntryStore for TLC.                          *)
EXTENDS EntryStore, TLC

CONSTANTS r1, r2, u1, s1, w1, w2, n1, n2, m1, m2

(* w2 is w1 with a character that improve-entries removes; m2 are meanings *)
(* it cleans to m1.                                                        *)
MCNorm == (w1 :> n1) @@ (w2 :> n2)
MCCleaned == (w1 :> w1) @@ (w2 :> w1) @@ (m1 :> m1) @@ (m2 :> m1)

NewEntry(w, m) == [word |-> w, homonym |-> 0, meanings |-> m, classlessNoun |-> FALSE]

(* One entry; and two homonyms with an incomplete entry and a duplicate.   *)
OneEntry == <<NewEntry(w1, m1)>>
Homonyms == <<NewEntry(w2, Nothing), NewEntry(w2, m1),
              [NewEntry(w2, m2) EXCEPT !.homonym = 1], NewEntry(w2, m2)>>
MCFiles == {OneEntry, Homonyms}

MCEdits == {[word |-> w2, meanings |-> Unset], [word |-> w1, meanings |-> m2]}
MCProposed == {w2}
MCBatches == {<<1, 2>>, <<2, 1>>}
=============================================================================
