---------------------------- MODULE FloorPosts -----------------------------
(***************************************************************************)
(* The posts a floor is drawn through                                      *)
(* (crates/wem-vorbis/src/floor.rs and floor_fit.rs).                      *)
(*                                                                         *)
(* Posts count from 1: both ends of the spectrum, then packet order; xs    *)
(* holds their positions.  A post is a height; an unused one carries a     *)
(* flag above its height.                                                  *)
(***************************************************************************)
EXTENDS Arithmetic

Flag == 32768

Plain(y) == y % Flag
Flagged(y) == (y \div Flag) % 2 = 1

QuantizePosts(floor, fit) ==
    [i \in DOMAIN fit |-> Plain(fit[i]) \div floor.fitStep
                          + (IF Flagged(fit[i]) THEN Flag ELSE 0)]

\* The posts among those before i that enclose it most tightly; post 1 and
\* post 2, the ends, when none does.
Lower(xs, i) ==
    LET below == {j \in 1 .. i - 1 : xs[j] > 0 /\ xs[j] < xs[i]}
    IN  IF below = {} THEN 1
        ELSE CHOOSE j \in below : \A k \in below : xs[k] <= xs[j]

Upper(xs, i) ==
    LET above == {j \in 1 .. i - 1 : xs[j] < xs[2] /\ xs[j] > xs[i]}
    IN  IF above = {} THEN 2
        ELSE CHOOSE j \in above : \A k \in above : xs[k] >= xs[j]

\* Height at x of the line between two posts, rounded towards the first.
RenderPoint(x0, x1, y0, y1, x) ==
    LET dy == Plain(y1) - Plain(y0)
        off == (Distance(Plain(y0), Plain(y1)) * (x - x0)) \div (x1 - x0)
    IN  IF x1 = x0 THEN Plain(y0)
        ELSE IF dy < 0 THEN Plain(y0) - off ELSE Plain(y0) + off

\* Where the posts before it predict a post.
Predicted(xs, posts, i) ==
    LET lo == Lower(xs, i)
        hi == Upper(xs, i)
    IN  RenderPoint(xs[lo], xs[hi], posts[lo], posts[hi], xs[i])

=============================================================================
