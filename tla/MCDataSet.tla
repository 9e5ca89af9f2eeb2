------------------------------- MODULE MCDataSet -------------------------------
(***************************************************************************)
(* DataSet for TLC: every answer of up to MaxPages pages and MaxBlocks     *)
(* blocks, read by a reader that may go on after an error.                 *)
(***************************************************************************)
EXTENDS DataSet

CONSTANTS MaxPages, MaxBlocks

Shapes == [n : 0..2, kind : {"good"}] \cup {[n |-> 1, kind |-> "unmapped"], [n |-> 0, kind |-> "corrupt"]}

\* Page p of an answer, its blocks with their places as names.
Page(shapes, p) ==
    [b \in DOMAIN shapes |-> [id |-> <<p, b>>, n |-> shapes[b].n, kind |-> shapes[b].kind]]

PageSizes == UNION {[1..k -> 0..MaxBlocks] : k \in 1..MaxPages}
SumOf(f) == FoldLeft(LAMBDA x, y : x + y, 0, f)
MCStreams ==
    UNION {{[p \in DOMAIN sizes |-> Page([b \in 1..sizes[p] |-> all[<<p, b>>]], p)] :
               all \in [{<<p, b>> \in (DOMAIN sizes) \X (1..MaxBlocks) : b <= sizes[p]} -> Shapes]} :
           sizes \in {s \in PageSizes : SumOf(s) <= MaxBlocks}}
\* The places a block may have.
MCBlockIds == (1..MaxPages) \X (1..MaxBlocks)
================================================================================
