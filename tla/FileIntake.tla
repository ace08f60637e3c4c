------------------------------ MODULE FileIntake ------------------------------
(***************************************************************************)
(* What upload_evidence makes of a file before it is hashed: its name and its  *)
(* declared type (security/file_validation.py) and the loop that copies it to a  *)
(* temporary file.                                                            *)
(*                                                                         *)
(* A name is a sequence of pieces: a separator, a dot, a hyphen, an underscore, a     *)
(* blank, a run of letters and digits that comes as one piece, upper-case or not,      *)
(* "#" (any other character that is not of a word), or a piece that NFKC or the       *)
(* dropping of NUL turns into other pieces, which the tables Compat and Nul tell (a    *)
(* letter and the marks NFKC composes it with are one piece). Sizes count in some     *)
(* unit of which a chunk and the limit are small multiples.                         *)
(***************************************************************************)
EXTENDS Naturals, Sequences, FiniteSetsExt, SequencesExt

CONSTANTS
    Names,            \* names a client may send; << >> for none
    Types,            \* content types a client may send
    Letters,          \* the pieces made of letters; "evidence" is one
    Compat,           \* piece that NFKC changes -> what it makes of it
    Nul,              \* piece with a NUL in it -> what is left without
    Allowed,          \* ALLOWED_FILE_EXTENSIONS
    Blocked,          \* BLOCKED_EXTENSIONS
    MimeByExtension,  \* MIME_BY_EXTENSION: extension -> types
    MaxStem,          \* longest stem, 200 in the code
    MaxSize,          \* max_size_bytes
    ChunkSize         \* what one read returns at most, 1 MiB in the code

ASSUME IntakeAssumption ==
    /\ "evidence" \in Letters
    /\ MaxStem \in Nat \ {0} /\ MaxSize \in Nat \ {0} /\ ChunkSize \in Nat \ {0}

Signs == {"/", "\\", ".", "-", "underscore", "blank", "#"}

Pieces == Letters \cup Signs \cup DOMAIN Compat \cup DOMAIN Nul

\* The pieces of a name are told apart; NFKC changes no letters (those it changes are
\* pieces of the table) and no sign; an extension that may be accepted is a dot and
\* letters, as every one in Settings.allowed_file_extensions is.
ASSUME PiecesAssumption ==
    /\ Letters \cap Signs = {}
    /\ (DOMAIN Compat \cup DOMAIN Nul) \cap (Letters \cup Signs) = {}
    /\ Compat \in [DOMAIN Compat -> Seq(Pieces)] /\ Nul \in [DOMAIN Nul -> Seq(Pieces)]
    /\ "PDF" \in Pieces => {"PDF", "pdf"} \subseteq Letters
    /\ Names \subseteq Seq(Pieces)
    /\ Allowed \ Blocked \subseteq {<<".", letters>> : letters \in Letters}

VARIABLES
    name,       \* upload.filename
    type,       \* upload.content_type
    pc,         \* where the request is
    cleaned,    \* the name it is stored under
    size,       \* bytes read
    copied,     \* bytes in the temporary file
    error       \* code of the error it was refused with

vars == <<name, type, pc, cleaned, size, copied, error>>

Init ==
    /\ name \in Names
    /\ type \in Types
    /\ pc = "metadata"
    /\ cleaned = << >>
    /\ size = 0
    /\ copied = 0
    /\ error = "none"

-----------------------------------------------------------------------------
(* safe_filename *)

Replace(s, old, new) == [i \in DOMAIN s |-> IF s[i] = old THEN new ELSE s[i]]

\* str.strip
Strip(s, pieces) ==
    LET kept == {i \in DOMAIN s : s[i] \notin pieces}
    IN  IF kept = {} THEN << >> ELSE SubSeq(s, Min(kept), Max(kept))

\* PurePath(s).name: the last part between separators that is not empty nor ".".
PathName(s) ==
    LET Part(i, j) ==
            /\ i = 1 \/ s[i - 1] = "/"
            /\ j = Len(s) \/ s[j + 1] = "/"
            /\ \A k \in i .. j : s[k] # "/"
            /\ SubSeq(s, i, j) # <<".">>
        parts == {p \in (DOMAIN s) \X (DOMAIN s) : p[1] <= p[2] /\ Part(p[1], p[2])}
    IN  IF parts = {} THEN << >>
        ELSE LET p == CHOOSE p \in parts : \A q \in parts : q[1] <= p[1]
             IN  SubSeq(s, p[1], p[2])

\* Where the suffix of a path begins: at its last dot, if that is neither the first
\* nor the last character of its name.
SuffixAt(n) ==
    LET dots == {i \in DOMAIN n : n[i] = "."}
    IN  IF dots # {} /\ Max(dots) \in 2 .. Len(n) - 1 THEN Max(dots) ELSE Len(n) + 1

PathStem(s) == SubSeq(PathName(s), 1, SuffixAt(PathName(s)) - 1)
PathSuffix(s) == SubSeq(PathName(s), SuffixAt(PathName(s)), Len(PathName(s)))

Lower(s) == [i \in DOMAIN s |-> IF s[i] = "PDF" THEN "pdf" ELSE s[i]]

\* Each piece that the table knows gives way to what the table makes of it.
Expand(s, table) ==
    FlattenSeq([i \in DOMAIN s |-> IF s[i] \in DOMAIN table THEN table[s[i]] ELSE <<s[i]>>])

\* [\w.-]
Word == Letters \cup {".", "-", "underscore"}

\* re.sub(r"[^\w.-]+", "_", s): each run of other characters becomes one underscore.
Underscored(s) ==
    FlattenSeq([i \in DOMAIN s |->
        IF s[i] \in Word THEN <<s[i]>>
        ELSE IF i = 1 \/ s[i - 1] \in Word THEN <<"underscore">>
        ELSE << >>])

\* A faulty stem that keeps its dots and underscores.
StemUnstripped(n) == Underscored(PathStem(n))

StemLeft(n) == Strip(Underscored(PathStem(n)), {".", "underscore"})

Stem(n) == IF StemLeft(n) = << >> THEN <<"evidence">> ELSE StemLeft(n)

Suffix(n) == Lower(PathSuffix(n))

Normalized(filename) ==
    Expand(Strip(Expand(PathName(Replace(filename, "\\", "/")), Compat), {"blank"}), Nul)

safe_filename(filename) ==
    LET n == Normalized(filename)
    IN  SubSeq(Stem(n), 1, Min({MaxStem, Len(Stem(n))})) \o Suffix(n)

-----------------------------------------------------------------------------
(* FileValidator *)

\* A faulty check that trusts the configuration.
SupportedIfAllowed(extension) == extension \in Allowed

Supported(extension) == extension \in Allowed \ Blocked

\* Without parameters; a missing type is application/octet-stream.
DeclaredType ==
    CASE type = "none" -> "octet-stream" [] type = "pdf; charset" -> "pdf" [] OTHER -> type

MimeMatches(extension) ==
    DeclaredType \in IF extension \in DOMAIN MimeByExtension THEN MimeByExtension[extension]
                     ELSE {"octet-stream"}

\* A faulty refusal that does not say why.
RefuseSilently(code) == pc' = "refused" /\ error' = error

Refuse(code) == pc' = "refused" /\ error' = code

ValidateMetadata ==
    LET clean == safe_filename(name)
        extension == Suffix(clean)
    IN  /\ pc = "metadata"
        /\ CASE name = << >> -> Refuse("FILENAME_REQUIRED") /\ cleaned' = cleaned
             [] name # << >> /\ ~Supported(extension) -> Refuse("INVALID_TYPE") /\ cleaned' = cleaned
             [] name # << >> /\ Supported(extension) /\ ~MimeMatches(extension) ->
                  Refuse("MIME_MISMATCH") /\ cleaned' = cleaned
             [] OTHER -> pc' = "read" /\ error' = error /\ cleaned' = clean
        /\ UNCHANGED <<name, type, size, copied>>

\* A faulty comparison; another one that lets an empty file pass.
TooLargeAtLimit(n) == n >= MaxSize
NeverEmpty(n) == FALSE

TooLarge(n) == n > MaxSize
Empty(n) == n <= 0

\* The chunk that passes the limit is not written any more.
ReadChunk ==
    /\ pc = "read"
    /\ \E chunk \in 1 .. ChunkSize :
         /\ size' = size + chunk
         /\ IF TooLarge(size + chunk)
              THEN Refuse("TOO_LARGE") /\ copied' = copied
              ELSE copied' = copied + chunk /\ UNCHANGED <<pc, error>>
    /\ UNCHANGED <<name, type, cleaned>>

EndOfFile ==
    /\ pc = "read"
    /\ CASE Empty(size) -> Refuse("EMPTY")
         [] ~Empty(size) /\ TooLarge(size) -> Refuse("TOO_LARGE")
         [] OTHER -> pc' = "received" /\ error' = error
    /\ UNCHANGED <<name, type, cleaned, size, copied>>

Ended == pc \in {"received", "refused"} /\ UNCHANGED vars

Next == ValidateMetadata \/ ReadChunk \/ EndOfFile \/ Ended

Spec == Init /\ [][Next]_vars

-----------------------------------------------------------------------------
Accepted == pc \in {"read", "received"}

(* Each variable holds what the client or the checks can put there.          *)
TypeOK ==
    /\ name \in Names /\ type \in Types
    /\ pc \in {"metadata", "read", "received", "refused"}
    /\ cleaned \in Seq(Pieces)
    /\ size \in 0 .. MaxSize + ChunkSize /\ copied \in 0 .. size
    /\ (pc = "refused") = (error # "none")

(* An accepted name adds one part to the object key and no more: letters, dots,  *)
(* hyphens and underscores, of bounded length, that neither begin like a hidden     *)
(* file nor consist of an extension only.                                         *)
StoredNameSafe ==
    Accepted =>
        /\ \A i \in DOMAIN cleaned : cleaned[i] \in Word
        /\ Len(cleaned) \in 3 .. MaxStem + 2
        /\ cleaned[1] \notin {".", "underscore"}

\* The whole name as a reader sees it: normalised, without NUL, with one separator.
Shown(filename) == Expand(Expand(Replace(filename, "\\", "/"), Compat), Nul)

(* A file is only accepted as what its own name says: the name, as it is shown,   *)
(* ends in an extension that is allowed, not blocked and declared with a type of    *)
(* its own, and no letter or hyphen follows it, unless the stem was cut.            *)
TypeJudgedByName ==
    Accepted =>
        \E i \in 2 .. Len(Shown(name)) :
            LET extension == Lower(<<Shown(name)[i - 1], Shown(name)[i]>>)
            IN  /\ extension \in Allowed \ Blocked /\ MimeMatches(extension)
                /\ \/ \A j \in i + 1 .. Len(Shown(name)) : Shown(name)[j] \notin Letters \cup {"-"}
                   \/ Len(Stem(Normalized(name))) > MaxStem

(* No good name is refused: one that, as it is shown, ends in a stem, a dot and an *)
(* extension that is allowed, in whatever case, from whatever directory, with a     *)
(* fitting type.                                                                 *)
GoodNamesPass ==
    LET shown == Shown(name)
        n == Len(shown)
    IN  n > 2 /\ shown[n - 2] \notin {"/", "blank"} =>
            LET extension == Lower(<<shown[n - 1], shown[n]>>)
            IN  extension \in Allowed \ Blocked /\ MimeMatches(extension) =>
                    error \notin {"FILENAME_REQUIRED", "INVALID_TYPE", "MIME_MISMATCH"}

(* The temporary file never outgrows the limit, a file that is received is the   *)
(* whole of what was sent, and a file is refused for its size only if it is empty  *)
(* or larger than the limit.                                                     *)
SizeJudged ==
    /\ copied <= MaxSize
    /\ pc = "received" => copied = size /\ size \in 1 .. MaxSize
    /\ error = "EMPTY" => size = 0
    /\ error = "TOO_LARGE" => size > MaxSize
=============================================================================
