---- MODULE MCBgRemoval ----
(* BgRemoval for TLC: up to two blobs of any extent, in pictures that the   *)
(* line starts in and in pictures that it starts below.                     *)
EXTENDS BgRemoval
Heights  == {4, 6}
OneBlob  == {b \in [top : 0 .. 5, bottom : 0 .. 5] : b.top <= b.bottom}
FewBlobs == {{}} \cup {{b, c} : b \in OneBlob, c \in OneBlob}
====
