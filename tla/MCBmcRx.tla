------------------------------ MODULE MCBmcRx ------------------------------
(* Small instances of BmcRx: the frames that are sent, and the noise.      *)
EXTENDS BmcRx

\* One payload holds a sync word and a plausible LEN.
ThreePayloads == << <<0>>, <<SyncHi, SyncLo, 1>>, <<1>> >>

\* A damaged cell looks like half a sync word, the longest LEN.
Confusing == {SyncHi, SyncLo, 3}

\* Frames that a sync word at the end of the window cuts off, and noise that
\* hides a sync word.
ThreeShort == << <<1>>, <<0>>, <<1>> >>
NotSync == {0}
=============================================================================
