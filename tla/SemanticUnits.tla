--------------------------- MODULE SemanticUnits ----------------------------
(***************************************************************************)
(* file_slice.py: what a chunk of a semantic extraction is made of.  A     *)
(* unit is a file or a slice of one, [file, from, to]; a file's text is a  *)
(* number of pieces, the smallest ranges it can be cut into, and a unit    *)
(* holds those from `from` to before `to`.                                 *)
(***************************************************************************)
EXTENDS Integers, Sequences

Pieces(units) == UNION {{<<u.file, p>> : p \in u.from .. u.to - 1} : u \in units}

FilesOf(units) == {u.file : u \in units}

Of(file, pieces) == {p \in pieces : p[1] = file}

(* bisect_slice and bisect_path: a whole file is a slice from its start to *)
(* its end.                                                                *)
Bisectable(unit) == unit.to - unit.from > 1

Bisect(unit) ==
  LET cut == (unit.from + unit.to) \div 2
  IN  <<[unit EXCEPT !.to = cut], [unit EXCEPT !.from = cut]>>
=============================================================================
