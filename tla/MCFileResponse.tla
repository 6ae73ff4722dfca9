--------------------------- MODULE MCFileResponse ---------------------------
(***************************************************************************)
(* A finite instance of FileResponse for TLC: two versions of one size, an *)
(* empty one and one byte in a size_t of two bits, so that every number    *)
(* wraps around; modification times on both sides of a change to and from  *)
(* daylight saving, at the edge of a second and off it.                    *)
(***************************************************************************)
EXTENDS FileResponse

CONSTANTS v1, v2, v3, v4

MCVersions == {v1, v2, v3, v4}
MCSize == [v \in MCVersions |-> CASE v = v1 -> 3 [] v = v2 -> 3 [] v = v3 -> 0 [] v = v4 -> 1]
MCMtimes == [sec: {2, 8}, edge: {"none"}]
            \cup {[sec |-> 4, edge |-> "late"], [sec |-> 7, edge |-> "early"]}
MCSummer == {3, 4, 5}
MCZone == -2

=============================================================================
