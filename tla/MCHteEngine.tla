---------------------------- MODULE MCHteEngine ----------------------------
(* TLC instance of HteEngine: the boots of MemInit's table on up to two     *)
(* ranks, with and without training and ECC.                                *)
EXTENDS HteEngine, SequencesExt

Asc(rs) == SetToSortSeq(rs, LAMBDA a, b : a < b)
PerRank(fn, rs) == [i \in 1..Len(Asc(rs)) |-> [fn |-> fn, rank |-> Asc(rs)[i]]]
Whole(fn) == <<[fn |-> fn, rank |-> None]>>

\* wr_level: the edge and the coarse test of each rank.
Levelling(rs) ==
  FlattenSeq([i \in 1..Len(Asc(rs)) |-> PerRank("write_edge", {Asc(rs)[i]})
                                          \o PerRank("coarse", {Asc(rs)[i]})])

\* rd_train goes over the ranks once for each corner of the eye, wr_train once for
\* each side of the window.
Training(rs) ==
  PerRank("read_edge", rs) \o Levelling(rs)
    \o FlattenSeq([corner \in 1..4 |-> PerRank("rd_train", rs)])
    \o PerRank("wr_train", rs) \o PerRank("wr_train", rs)

CodeBoots ==
  LET end(ecc) == (IF ecc THEN Whole("init") ELSE <<>>) \o Whole("test")
  IN  {end(ecc) : ecc \in BOOLEAN}
        \cup {Training(rs) \o end(ecc) : ecc \in BOOLEAN, rs \in SUBSET Ranks \ {{}}}
=============================================================================
