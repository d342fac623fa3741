---------------------------- MODULE FieldLookup ----------------------------
(***************************************************************************)
(* How creds.py picks fields out of a 1Password item: a sequence of        *)
(* sections, or None, and a sequence of fields, each with a label, a value *)
(* and the id of its section, if it is in one.                             *)
(***************************************************************************)
EXTENDS Integers, Sequences

CONSTANTS None, Raise     \* no value, and an exception

Least(hits) == CHOOSE i \in hits : \A j \in hits : i <= j

\* The value of the first field of those at hits.
FirstValue(item, hits) == IF hits = {} THEN Raise ELSE item.fields[Least(hits)].value

\* To iterate over None raises, which to its caller is as if nothing were found.
SectionsOf(item) == IF item.sections = None THEN << >> ELSE item.sections

Labelled(s, label) == {i \in DOMAIN s : s[i].label = label}

\* A look-up that takes the first field of the section, whatever its label.
MutLookup(path, item) ==
  LET named == Labelled(SectionsOf(item), path[2]) IN
  IF Len(path) = 3 /\ named # {}
  THEN FirstValue(item, {i \in DOMAIN item.fields :
                           item.fields[i].section = SectionsOf(item)[Least(named)].id})
  ELSE Raise

\* get_creds() of the connect client: "item", "item/field" or
\* "item/section/field".  A label that is there twice counts where it is first.
Lookup(path, item) ==
  CASE Len(path) = 1 -> IF Len(item.fields) = 1 THEN item.fields[1].value ELSE Raise
    [] Len(path) = 2 -> FirstValue(item, Labelled(item.fields, path[2]))
    [] Len(path) = 3 ->
         LET named == Labelled(SectionsOf(item), path[2]) IN
         IF named = {} THEN Raise
         ELSE FirstValue(item, {i \in Labelled(item.fields, path[3]) :
                                  item.fields[i].section = SectionsOf(item)[Least(named)].id})
    [] OTHER -> Raise

-----------------------------------------------------------------------------
InSections(f, names, item) ==
  \E i \in DOMAIN SectionsOf(item) :
    SectionsOf(item)[i].id = f.section /\ SectionsOf(item)[i].label \in names

\* A field of a section that the item does not have.
Orphan(f, item) ==
  f.section # None /\ \A i \in DOMAIN SectionsOf(item) : SectionsOf(item)[i].id # f.section

\* A dictionary with the value of one more field, or another value of it.
With(d, f) == [label \in DOMAIN d \cup {f.label} |-> IF label = f.label THEN f.value ELSE d[label]]

\* The loop over the fields that fills the dictionary, for n fields.  The service
\* client (strict) refuses an orphan, and a label that it has already.
Filling(names, item, strict) ==
  LET filled[n \in 0 .. Len(item.fields)] ==
        IF n = 0 THEN << >>
        ELSE LET f == item.fields[n]
                 taken == InSections(f, names, item)
                 d == filled[n - 1]
             IN  IF d = Raise \/ (strict /\ (Orphan(f, item) \/ (taken /\ f.label \in DOMAIN d)))
                 THEN Raise
                 ELSE IF taken THEN With(d, f) ELSE d
  IN  filled

\* get_fields_from_sections() of the connect client, which looks at the sections
\* first ...
ConnectFields(names, item) ==
  IF item.sections = None THEN Raise ELSE Filling(names, item, FALSE)[Len(item.fields)]

\* A service client that lets the last duplicate win, like the connect client.
MutServiceFields(names, item) == ConnectFields(names, item)

\* ... and of the service client, which asks for their number.
ServiceFields(names, item) ==
  IF item.sections = None THEN Raise ELSE Filling(names, item, TRUE)[Len(item.fields)]
=============================================================================
