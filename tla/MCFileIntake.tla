---------------------------- MODULE MCFileIntake ----------------------------
(* All names of up to MaxPieces pieces, and longer ones of a few; one extension of  *)
(* each kind: in the table of types, allowed without being in it, and allowed        *)
(* although it is blocked. NFKC knows a full stop, a slash, a blank and letters of    *)
(* full width, a character that stands for two dots and one that stands for letters   *)
(* around a slash; NUL comes alone or between letters.                              *)
EXTENDS FileIntake

CONSTANT MaxPieces

MCLetters == {"a", "pdf", "PDF", "zip", "exe", "evidence"}

MCCompat ==
    [piece \in {"wide .", "wide /", "wide blank", "wide pdf", "two dots", "a/a"} |->
        CASE piece = "wide ." -> <<".">>
          [] piece = "wide /" -> <<"/">>
          [] piece = "wide blank" -> <<"blank">>
          [] piece = "wide pdf" -> <<"pdf">>
          [] piece = "two dots" -> <<".", ".">>
          [] piece = "a/a" -> <<"a", "/", "a">>]

MCNul == [piece \in {"nul", "p nul df"} |-> IF piece = "nul" THEN << >> ELSE <<"pdf">>]

MCSigns == {"a", "pdf", ".", "/", "-", "underscore", "blank", "#"}

MCPieces ==
    MCSigns \cup {"PDF", "zip", "exe", "\\"} \cup DOMAIN MCCompat \cup DOMAIN MCNul

MCNames ==
    UNION {[1 .. n -> MCPieces] : n \in 0 .. MaxPieces - 1}
        \cup [1 .. MaxPieces -> MCSigns \cup {"wide .", "wide /", "p nul df"}]
        \cup [1 .. MaxPieces + 1 -> {"a", "pdf", ".", "/", "underscore", "wide ."}]

MCAllowed == {<<".", "pdf">>, <<".", "zip">>, <<".", "exe">>}

MCBlocked == {<<".", "exe">>}

MCMimeByExtension == [extension \in {<<".", "pdf">>} |-> {"pdf"}]
=============================================================================
