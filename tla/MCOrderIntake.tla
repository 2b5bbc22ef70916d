--------------------------- MODULE MCOrderIntake ---------------------------
(***************************************************************************)
(* Two files: f1 with a sticker row, a soundbox row for the same VPA       *)
(* (held) and a row that does not parse (held), f2 with a soundbox for the *)
(* VPA of that third row.  The corrections carry the id of the held row,   *)
(* or, for a sticker row of the first VPA, a new one.                      *)
(* An operator may create the merchant of the second VPA by another name.  *)
(***************************************************************************)
EXTENDS OrderIntake

CONSTANTS f1, f2, k1, k2, i1, i2, i3, i4, i5, v1, v2, n1, n2

R(i, f, no, v, n, soundbox, paper, valid) ==
    [id |-> i, file |-> f, no |-> no, vpa |-> v, name |-> n,
     soundbox |-> soundbox, paper |-> paper, valid |-> valid]

MCRows == {R(i1, f1, 1, v1, n1, FALSE, TRUE, TRUE), R(i2, f1, 2, v1, n1, TRUE, FALSE, TRUE),
           R(i3, f1, 3, v2, n1, FALSE, FALSE, FALSE),
           R(i4, f2, 1, v2, n1, TRUE, TRUE, TRUE)}

MCCorrections == {R(i3, None, 3, v2, n1, TRUE, FALSE, TRUE), R(i5, None, 1, v1, n1, FALSE, FALSE, TRUE),
                  R(i2, None, 2, v1, n1, TRUE, FALSE, TRUE)}

MCManual == {<<v2, n2>>}
=============================================================================
