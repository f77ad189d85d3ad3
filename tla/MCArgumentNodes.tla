-------------------------- MODULE MCArgumentNodes --------------------------
(* A small instance of ArgumentNodes. *)
EXTENDS ArgumentNodes, TLC

File(name1, what1, name2, what2) ==
    <<[name |-> name1, what |-> what1], [name |-> name2, what |-> what2]>>

\* Details LLAIR writes, words it does not know, names that are missing.
MCFiles ==
    { File("x", Detail("texture", "read"), "", NoDetails),
      File("", Detail("position", "flat"), "x", Detail("position", "flat")),
      File("x", Detail("position", "other"), "absent", Detail("texture", "sample")),
      File("x", Detail("vertex_input", "file"), "x", Detail("texture", "read")) }

MCSymmetry == Permutations(EntryPoints)
=============================================================================
