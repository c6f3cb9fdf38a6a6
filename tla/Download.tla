------------------------------ MODULE Download ------------------------------
(***************************************************************************)
(* What the program promises whoever runs it: pieces of the torrent are    *)
(* found good one at a time, each at most once; those in the file stay in  *)
(* it whatever happens; and if the program ends by itself, with no write   *)
(* failed nor the closing of the file, every good piece is in the file.    *)
(* No peers, no threads, no bytes.                                         *)
(***************************************************************************)
CONSTANT Pieces

VARIABLES verified,     \* the pieces that were found good
          safe,         \* those of them that are in the file
          over          \* "no"; "clean", it has ended by itself; "cut", it
                        \* was terminated, or has ended and lost a write

downloadVars == <<verified, safe, over>>

DownloadInit == verified = {} /\ safe = {} /\ over = "no"

\* A piece that consists of what the file has in its gaps, zeros, may be there
\* before it is written.  The handler that verified it may end the process.
Verify(i) ==
  /\ over = "no" /\ i \notin verified
  /\ verified' = verified \cup {i}
  /\ safe' \in {safe, safe \cup {i}}
  /\ over' \in {"no", "cut"}

Save ==
  /\ over = "no"
  /\ safe \subseteq safe' /\ safe' \subseteq verified
  /\ UNCHANGED <<verified, over>>

Finish ==
  /\ over = "no" /\ over' = "clean"
  /\ safe' = verified
  /\ UNCHANGED verified

\* The last thing that is written before such an end may be a piece.
Cut ==
  /\ over = "no" /\ over' = "cut"
  /\ safe \subseteq safe' /\ safe' \subseteq verified
  /\ UNCHANGED verified

DownloadNext == (\E i \in Pieces : Verify(i)) \/ Save \/ Finish \/ Cut

DownloadSpec == DownloadInit /\ [][DownloadNext]_downloadVars

=============================================================================
