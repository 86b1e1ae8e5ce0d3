---------------------------- MODULE MCLoopTiling ----------------------------
(* Finite instances of LoopTiling.                                         *)
EXTENDS LoopTiling

Tiles(tiles) ==
  [affine |-> TRUE, num_gang |-> 0, num_worker |-> 0, vector_length |-> 1,
   num_iterations |-> [t \in Tile |-> tiles[t + 1]]]

Assuming(gang, worker, tiles) ==
  [Tiles(tiles) EXCEPT !.num_gang = gang, !.num_worker = worker]

(* Tests 101 to 104 and 501: one dynamic tile.                             *)
v1 == Tiles(<<0, 0, 1, 0, 1, 1, 1>>)
v2 == Tiles(<<1, 0, 0, 0, 1, 1, 1>>)
v3 == Tiles(<<1, 0, 1, 0, 0, 1, 1>>)

(* Versions of tuner/103 and tuner/104, with shorter tiles.                *)
w1 == Tiles(<<1, 0, 0, 0, 2, 1, 1>>)
w2 == Tiles(<<2, 0, 1, 0, 0, 1, 1>>)
w3 == Tiles(<<0, 0, 2, 0, 1, 1, 1>>)

(* A static version, as test 001 has one, and others with a vector level.  *)
s1 == Assuming(2, 2, <<1, 0, 1, 0, 2, 1, 1>>)
x1 == [Tiles(<<0, 0, 1, 0, 2, 0, 2>>) EXCEPT !.vector_length = 2]
\* Gangs the version fixes: only launches that have them.
g1 == Tiles(<<1, 2, 0, 0, 1, 1, 1>>)
x2 == [v1 EXCEPT !.affine = FALSE]

Lists == {<<v1>>, <<v2>>, <<v3>>, <<w1, w2>>, <<w3, v1>>, <<v2, s1>>, <<s1, v2>>,
          <<x1>>, <<x2, x1>>, <<g1>>}
=============================================================================
