----------------------------- MODULE MCDataFiles -----------------------------
(***************************************************************************)
(* Small instances of DataFiles for TLC.                                   *)
(***************************************************************************)
EXTENDS DataFiles

\* Fields changed, left out, and out of bounds where the code does not mind.
MCGoodFiles == {<<Absent, 300, Garbled, 7>>}

\* A number out of bounds, no number where one belongs, another version.
MCBadFiles == {<<1, 3, FALSE, Null>>, <<1, Garbled, FALSE, Null>>, <<2, 30, FALSE, Null>>,
               <<1, 30, FALSE, 0>>}

\* A sound blob of both keys, blobs with one fault each (the version, the number
\* of entries, a key, a key twice, a zero, a byte short, a byte too many), and a
\* sound one of a later release.
Sound == Encode([k \in KeyIndexes |-> 2 * k + 1])
Damage == {<<1, 2>>, <<2, 3>>, <<4, 200>>, <<10, 0>>, <<12, 0>>}
MCOldRows ==
  {[keymap_version |-> 1, counts |-> blob] :
     blob \in {Sound, Tail(Sound), Append(Sound, 0)}
                \cup {[Sound EXCEPT ![d[1]] = d[2]] : d \in Damage}}
  \cup {[keymap_version |-> 3, counts |-> Sound]}

\* The old minute and the first, and the minutes of this run.
MCRanges == {[first |-> -1, second |-> 1], [first |-> 0, second |-> 2]}
=============================================================================
