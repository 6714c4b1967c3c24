-------------------------------- MODULE Sizes --------------------------------
(***************************************************************************)
(* What an arm ships: the artifact on disk, the image in the node library, *)
(* and the source, whose lines CountSource classifies one by one.          *)
(*                                                                         *)
(* A line is what matters of it after TrimSpace.  To CountSource: how it   *)
(* begins, and whether it has a "*/" anywhere.  To the compiler: whether   *)
(* it has code, and whether a block comment is open at its end.  Compiles  *)
(* is what the two have to do with each other, so the shapes of line are   *)
(* all there are: "/* a */ /* b" begins with a comment, has a "*/", has no *)
(* code and ends in a comment, and so does "/*/".  Left out is only a      *)
(* delimiter in a string, which CountSource says it takes for one.         *)
(***************************************************************************)
EXTENDS Integers

CONSTANT MaxLines    \* bound: lines of one file

ASSUME SizesAssumption == MaxLines \in Nat

Lines == [begins: {"", "//", "/*", "other"}, closes: BOOLEAN,
          code: BOOLEAN, open: BOOLEAN]

VARIABLES
    file,       \* the file being counted, and what MeasureSizes does otherwise
    read,       \* lines read of it
    inBlock,
    count,      \* the SourceCount
    tangled,    \* history: a line was Tangled
    comment,    \* history: the compiler is inside a block comment
    cloc,       \* history: lines that have code
    images,     \* bytes of each arm's image, 0 if the library has none
    crossover

sizeVars == <<file, read, inBlock, count, tangled, comment, cloc, images, crossover>>

SizesTypeOK ==
    /\ file \in {"none", "crrelay", "relay", "counted", "failed"}
    /\ read \in 0 .. MaxLines
    /\ inBlock \in BOOLEAN /\ tangled \in BOOLEAN /\ comment \in BOOLEAN
    /\ count \in [code: 0 .. read, comment: 0 .. read, blank: 0 .. read]
    /\ count.code + count.comment + count.blank = read
    /\ cloc \in 0 .. read
    /\ images \in [cr: Nat, perseid: Nat]
    /\ crossover \in Nat

StartFile_KeepsTheCount(f) ==
    /\ file' = f
    /\ read' = 0
    /\ inBlock' = FALSE /\ tangled' = FALSE /\ comment' = FALSE
    /\ cloc' = 0
    /\ UNCHANGED count

\* CountSource starts from nothing for every file.
StartFile(f) ==
    /\ file' = f
    /\ read' = 0
    /\ inBlock' = FALSE /\ tangled' = FALSE /\ comment' = FALSE
    /\ count' = [code |-> 0, comment |-> 0, blank |-> 0]
    /\ cloc' = 0

\* `apsis images`; an image the library does not have is zero bytes.
imageSizes == [cr: 0 .. 1, perseid: 0 .. 1]

\* `apsis images`, then a stat of both artifacts: either may fail.
StatArtifacts ==
    /\ file = "none"
    /\ \/ /\ images' \in imageSizes
          /\ StartFile("crrelay")
          /\ UNCHANGED crossover
       \/ /\ file' = "failed"
          /\ UNCHANGED <<read, inBlock, count, tangled, comment, cloc, images, crossover>>

Classify_NeverClosesOnItsLine(l) ==
    IF inBlock THEN <<"comment", ~l.closes>>
    ELSE IF l.begins = "" THEN <<"blank", FALSE>>
    ELSE IF l.begins = "//" THEN <<"comment", FALSE>>
    ELSE IF l.begins = "/*" THEN <<"comment", TRUE>>
    ELSE <<"code", FALSE>>

\* The class of line l, and whether a block comment goes on after it.
Classify(l) ==
    IF inBlock THEN <<"comment", ~l.closes>>
    ELSE IF l.begins = "" THEN <<"blank", FALSE>>
    ELSE IF l.begins = "//" THEN <<"comment", FALSE>>
    ELSE IF l.begins = "/*" THEN <<"comment", ~l.closes>>
    ELSE <<"code", FALSE>>

\* A line the compiler can read where it stands.  Inside a comment nothing but a
\* "*/" ends it, and what follows may be code or another comment.  Outside, a
\* blank line and a "//" are what they look like, a "/*" opens a comment that
\* only a "*/" ends, and anything else begins with code.
Compiles(l) ==
    /\ l.begins = "" => ~l.closes
    /\ comment => l.closes \/ (~l.code /\ l.open)
    /\ ~comment =>
         /\ l.begins \in {"", "//"} => ~l.code /\ ~l.open
         /\ l.begins = "/*" => l.closes \/ (~l.code /\ l.open)
         /\ l.begins = "other" => l.code

\* A line with code that begins or ends in a block comment or begins with one;
\* or a line without code that has a "*/" and ends in a comment all the same.
Tangled(l) ==
    \/ l.code /\ (comment \/ l.begins = "/*" \/ l.open)
    \/ ~l.code /\ l.closes /\ l.open

\* CountSource: one line of a source that compiles.
ReadLine(l) ==
    /\ file \in {"crrelay", "relay"}
    /\ read < MaxLines
    /\ Compiles(l)
    /\ read' = read + 1
    /\ count' = [count EXCEPT ![Classify(l)[1]] = @ + 1]
    /\ inBlock' = Classify(l)[2]
    /\ tangled' = (tangled \/ Tangled(l))
    /\ comment' = l.open
    /\ cloc' = IF l.code THEN cloc + 1 ELSE cloc
    /\ UNCHANGED <<file, images, crossover>>

\* The end of a file, or a file that cannot be read.  Both arms ship the same
\* image at every size, so the crossover is the ladder's first size or none.
EndFile ==
    /\ file \in {"crrelay", "relay"}
    /\ \/ /\ file = "crrelay" /\ ~comment
          /\ StartFile("relay")
          /\ UNCHANGED crossover
       \/ /\ file = "relay" /\ ~comment
          /\ file' = "counted"
          /\ crossover' = IF images.perseid > images.cr THEN 1 ELSE 0
          /\ UNCHANGED <<read, inBlock, count, tangled, comment, cloc>>
       \/ /\ file' = "failed"
          /\ UNCHANGED <<read, inBlock, count, tangled, comment, cloc, crossover>>
    /\ UNCHANGED images

SizesInit ==
    /\ file = "none"
    /\ read = 0 /\ cloc = 0
    /\ inBlock = FALSE /\ tangled = FALSE /\ comment = FALSE
    /\ count = [code |-> 0, comment |-> 0, blank |-> 0]
    /\ images = [cr |-> 0, perseid |-> 0]
    /\ crossover = 0

MeasureSizes == StatArtifacts \/ EndFile \/ \E l \in Lines : ReadLine(l)

(***************************************************************************)
(* Properties.                                                             *)
(***************************************************************************)

\* "agrees with cloc to the line" (README.md): in a file without a tangled line
\* the code lines counted are the lines with code, however its comments open and
\* close.  Tangled lines are where CountSource does not know: it lets any "*/" end
\* a comment, also the one of "/*/" and one before another "/*", and it never
\* looks at the rest of a line.
\* (Blank lines inside a block comment are comments here and blank to cloc.)
CodeAgreesWithCloc == ~tangled => count.code = cloc
=============================================================================
