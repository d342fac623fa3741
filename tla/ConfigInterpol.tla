--------------------------- MODULE ConfigInterpol ---------------------------
(***************************************************************************)
(* tools/config_interpol.py: main() reads a configuration from standard    *)
(* input and perhaps another one that overlays it, resolves the values of  *)
(* both with the environment, and prints the result.  The options before   *)
(* the first header belong to a section of the program's own, FAKE.        *)
(*                                                                         *)
(* The order of sections and options is that of the input, on which        *)
(* nothing depends; here it is any order.                                  *)
(***************************************************************************)
EXTENDS Integers, Sequences

CONSTANTS
  Section, FAKE,     \* section names, and FAKE_SECTION among them
  Option,            \* names of options and environment variables
  Text,              \* pieces of values
  None, Raise,
  Depth,             \* how many options a chain of references may have: one more
                     \* than MAX_INTERPOLATION_DEPTH of configparser, which does
                     \* not count a last value that refers to nothing
  Bases, Overlays,   \* the configurations considered,
  Environs           \* and the environments

\* A value is a piece of text that may go on with a reference to an option.
Value == [text : Text, ref : Option \cup {None}]

\* A dictionary from some of X to Y.
IsPartial(f, X, Y) == f = [x \in DOMAIN f |-> f[x]] /\ DOMAIN f \subseteq X /\ \A x \in DOMAIN f : f[x] \in Y

\* What a file says: the options of its sections, and those of [DEFAULT].
IsConfig(c) ==
  /\ c = [section |-> c.section, DEFAULT |-> c.DEFAULT]
  /\ DOMAIN c.section \subseteq Section /\ IsPartial(c.DEFAULT, Option, Value)
  /\ \A s \in DOMAIN c.section : IsPartial(c.section[s], Option, Value)

ASSUME ConfigAssumption ==
  /\ FAKE \in Section /\ None \notin Section \cup Option
  /\ Raise \notin Seq(Text) /\ Depth \in Nat \ {0}
  /\ None \notin Bases \cup Overlays /\ \A c \in Bases \cup Overlays : IsConfig(c)
  /\ \A e \in Environs : IsPartial(e, Option, Value)

VARIABLES
  config, overlay_config, environ,   \* what main() is given
  pc,
  todo,                              \* what the current loop has ahead of it
  sections,                          \* the values found, by section and option
  output                             \* what was printed: headers, each with its options

vars == <<config, overlay_config, environ, pc, todo, sections, output>>

-----------------------------------------------------------------------------
\* options() of each section, which has the options of [DEFAULT] as well.
Options(c) ==
  {k \in Section \X Option :
     k[1] \in DOMAIN c.section /\ k[2] \in DOMAIN c.section[k[1]] \cup DOMAIN c.DEFAULT}

\* A dictionary that falls back to another one.
Over(f, g) == [x \in DOMAIN f \cup DOMAIN g |-> IF x \in DOMAIN f THEN f[x] ELSE g[x]]

\* A look-up that falls back to the environment.
MutUnified(env, c, s) == Over(Over(c.section[s], c.DEFAULT), env)

\* The environment comes first, in every section.
Unified(env, c, s) == Over(env, Over(c.section[s], c.DEFAULT))

\* The texts of a chain of at most so many options, the first included; an option
\* that is missing, or a chain that is too long, is an exception.
Expansion(map) ==
  LET expand[n \in 0 .. Depth] ==
        [o \in Option |->
           IF n = 0 \/ o \notin DOMAIN map THEN Raise
           ELSE IF map[o].ref = None THEN <<map[o].text>>
           ELSE LET rest == expand[n - 1][map[o].ref] IN
                IF rest = Raise THEN Raise ELSE <<map[o].text>> \o rest]
  IN  expand

\* get(): a value and all that it refers to.
Get(env, c, k) == Expansion(Unified(env, c, k[1]))[Depth][k[2]]

Overlaid(k) == overlay_config # None /\ k \in Options(overlay_config)

-----------------------------------------------------------------------------
Init ==
  /\ config \in Bases /\ overlay_config \in Overlays \cup {None} /\ environ \in Environs
  /\ pc = "base" /\ todo = Options(config)
  /\ sections = << >> /\ output = << >>

\* A value is noted, or its exception ends the program.
Note(k, value) ==
  IF value = Raise
  THEN pc' = "failed" /\ UNCHANGED <<todo, sections>>
  ELSE /\ todo' = todo \ {k} /\ UNCHANGED pc
       /\ sections' = [x \in DOMAIN sections \cup {k} |-> IF x = k THEN value ELSE sections[x]]

\* A first loop that resolves the base's value although the overlay has another.
MutBase ==
  /\ pc = "base"
  /\ \E k \in todo : Note(k, Get(environ, config, k))
  /\ UNCHANGED <<config, overlay_config, environ, output>>

\* The loop over the options of the base.
Base ==
  /\ pc = "base"
  /\ \E k \in todo : Note(k, Get(environ, IF Overlaid(k) THEN overlay_config ELSE config, k))
  /\ UNCHANGED <<config, overlay_config, environ, output>>

\* The loop over the options of the overlay.
Supplement ==
  /\ pc = "overlay"
  /\ \E k \in todo : Note(k, Get(environ, overlay_config, k))
  /\ UNCHANGED <<config, overlay_config, environ, output>>

BaseDone ==
  /\ pc = "base" /\ todo = {}
  /\ IF overlay_config # None
     THEN pc' = "overlay" /\ todo' = Options(overlay_config)
     ELSE pc' = "default" /\ UNCHANGED todo
  /\ UNCHANGED <<config, overlay_config, environ, sections, output>>

SupplementDone ==
  /\ pc = "overlay" /\ todo = {}
  /\ pc' = "default"
  /\ UNCHANGED <<config, overlay_config, environ, todo, sections, output>>

Found == {k[1] : k \in DOMAIN sections}

\* What is printed of a section: its header, and its options with their values.
Block(header, s) ==
  [header |-> header, options |-> [o \in {o \in Option : <<s, o>> \in DOMAIN sections} |-> sections[<<s, o>>]]]

\* A program that prints the section FAKE again, with its header.
MutPrintDefault ==
  /\ pc = "default" /\ pc' = "print"
  /\ output' = IF FAKE \in Found THEN <<Block(None, FAKE)>> ELSE << >>
  /\ todo' = Found
  /\ UNCHANGED <<config, overlay_config, environ, sections>>

\* The options of FAKE are printed first, without a header.
PrintDefault ==
  /\ pc = "default" /\ pc' = "print"
  /\ output' = IF FAKE \in Found THEN <<Block(None, FAKE)>> ELSE << >>
  /\ todo' = Found \ {FAKE}
  /\ UNCHANGED <<config, overlay_config, environ, sections>>

PrintSection ==
  /\ pc = "print"
  /\ \E s \in todo :
       /\ output' = Append(output, Block(s, s))
       /\ todo' = todo \ {s}
  /\ UNCHANGED <<config, overlay_config, environ, pc, sections>>

Next == Base \/ BaseDone \/ Supplement \/ SupplementDone \/ PrintDefault \/ PrintSection

Spec == Init /\ [][Next]_vars

-----------------------------------------------------------------------------
TypeOK ==
  /\ config \in Bases /\ overlay_config \in Overlays \cup {None} /\ environ \in Environs
  /\ pc \in {"base", "overlay", "default", "print", "failed"}
  /\ todo \subseteq IF pc = "print" THEN Section \ {FAKE} ELSE Section \X Option
  /\ IsPartial(sections, Section \X Option, Seq(Text))
  /\ \A i \in DOMAIN output : /\ output[i].header \in Section \cup {None}
                              /\ IsPartial(output[i].options, Option, Seq(Text))

\* What the program looks at: the options of both files, those of [DEFAULT] among
\* them, each with the value of the overlay if it has one.
Wanted == Options(config) \cup IF overlay_config = None THEN {} ELSE Options(overlay_config)
Source(k) == IF Overlaid(k) THEN overlay_config ELSE config

\* In the file it is from, option o of section s has the value v.
Says(c, s, o, v) ==
  \/ o \in DOMAIN environ /\ v = environ[o]
  \/ o \notin DOMAIN environ /\ o \in DOMAIN c.section[s] /\ v = c.section[s][o]
  \/ /\ o \notin DOMAIN environ /\ o \notin DOMAIN c.section[s]
     /\ o \in DOMAIN c.DEFAULT /\ v = c.DEFAULT[o]

\* The references from option k lead along p to the text t, all in one file.
Resolves(k, p, t) ==
  /\ Len(t) = Len(p) /\ p[1] = k[2]
  /\ \A i \in 1 .. Len(p) :
       Says(Source(k), k[1], p[i], [text |-> t[i], ref |-> IF i = Len(p) THEN None ELSE p[i + 1]])

Paths == UNION {[1 .. n -> Option] : n \in 1 .. Depth}

\* A reader takes what has no header for the section FAKE if it comes first, and
\* for a part of the section before otherwise.
SectionOf(i) == IF output[i].header # None THEN output[i].header ELSE IF i = 1 THEN FAKE ELSE None

\* Those that either file has in the section itself.
Own == {k \in Wanted : \E c \in {config, overlay_config} \ {None} :
                         k \in Options(c) /\ k[2] \in DOMAIN c.section[k[1]]}

\* The options that a reader of the output finds, each in its section.
Printed == {k \in Section \X Option :
              \E i \in DOMAIN output : k[1] = SectionOf(i) /\ k[2] \in DOMAIN output[i].options}

\* A reader of the complete output finds each section once, and in it all that
\* either file has in the section itself, and nothing that neither file has there
\* or in [DEFAULT].
OutputComplete ==
  pc = "print" /\ todo = {} =>
    /\ \A i, j \in DOMAIN output : SectionOf(i) = SectionOf(j) => i = j
    /\ \A i \in DOMAIN output : output[i].header # FAKE
    /\ Own \subseteq Printed /\ Printed \subseteq Wanted

\* The comment over both loops: the options are not taken from items() "to avoid
\* emitting the defaults too".  (options() has them as well.)
DefaultsNotEmitted == Printed \subseteq Own

\* Every value printed is the one that the option has in the file that counts,
\* with the environment before the section and the section before [DEFAULT]; no
\* value mixes the two files.
ValuesResolve ==
  \A i \in DOMAIN output : \A o \in DOMAIN output[i].options :
    \E p \in Paths : Resolves(<<SectionOf(i), o>>, p, output[i].options[o])

\* The program fails before it has printed anything, and only if a value that
\* counts does not resolve: one that the overlay hides may be broken.
FailsForAReason ==
  pc = "failed" =>
    /\ output = << >>
    /\ \E k \in Wanted : \A p \in Paths : \A t \in [1 .. Len(p) -> Text] : ~Resolves(k, p, t)
=============================================================================
