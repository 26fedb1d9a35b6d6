----------------------------- MODULE MCHostFile -----------------------------
(* Small host files for TLC: many entries under no groups, and few entries *)
(* under many groups.                                                      *)
EXTENDS HostFile

Plain(word) == [word |-> word, items |-> << >>]
Pattern(items) == [word |-> ALL, items |-> items]
Item(low, high) == [low |-> low, high |-> high]

\* node[9-10], node[09-10] and node10 name the same Host in three ways; 10-9
\* counts down, and 8-10 fills the cap.  0-15 is all that a bound can say, and 16
\* is beyond it.
Items == {Item(<<9, 1>>, <<9, 1>>), Item(<<9, 1>>, <<10, 2>>),
          Item(<<9, 2>>, <<10, 2>>), Item(<<8, 1>>, <<10, 2>>),
          Item(<<10, 2>>, <<9, 1>>),
          Item(<<0, 1>>, <<15, 2>>), Item(<<15, 2>>, <<16, 2>>)}
EntryNames ==
    {Plain(w) : w \in {<<9, 1>>, <<9, 2>>, <<10, 2>>, <<1, 0>>, NotAName}}
    \cup {Pattern(s) : s \in SeqOf(Items, 2) \ {<< >>}}
NoFields == [f \in {} |-> 0]
Entries == [name : EntryNames, fields : {NoFields, "ip" :> 1, "user" :> NotAUser}]

NoGroups == [g \in {} |-> << >>]
ParsedFiles ==
    [entries : SeqOf(Entries, 2), groups : {NoGroups, ALL :> << >>}, asked : {<< >>}]

\* Two groups and a third that nobody declares; group <<1, 0>> has the name of a
\* Host, and one selector picks nothing.
Three == <<[name |-> Plain(<<1, 0>>), fields |-> "ip" :> 1],
           [name |-> Pattern(<<Item(<<9, 1>>, <<10, 2>>)>>), fields |-> NoFields]>>
Selectors == {Plain(<<1, 0>>), Plain(<<2, 0>>), Plain(<<10, 2>>), Plain(<<7, 1>>),
              Pattern(<<Item(<<8, 1>>, <<9, 1>>)>>)}
Tables == UNION {[G -> SeqOf(Selectors, 2)] :
                 G \in {{<<1, 0>>}, {<<2, 0>>}, {<<1, 0>>, <<2, 0>>}}}
SelectedFiles ==
    [entries : {Three}, groups : Tables,
     asked : SeqOf({ALL, <<1, 0>>, <<2, 0>>, <<3, 0>>}, 2)]

\* Three groups, every one of them in or out of the other two: cycles of all
\* lengths and groups that are shared.
Shared == {<<1, 0>>, <<2, 0>>, <<3, 0>>}
Nested ==
    [entries : {Three},
     groups : [Shared -> SeqOf({Plain(<<10, 2>>)} \cup {Plain(g) : g \in Shared}, 2)],
     asked : {<<g>> : g \in Shared}]

\* One Host with some fields and two that share others, listed all, without the
\* first and without the last.
FieldSets(S, n) == UNION {[F -> {n}] : F \in SUBSET S}
ListedFiles ==
    [entries : {<<[name |-> Plain(<<1, 0>>), fields |-> f],
                  [name |-> Pattern(<<Item(<<9, 1>>, <<10, 2>>)>>), fields |-> g]>> :
                f \in FieldSets({"user", "port", "ip", "own"}, 1),
                g \in FieldSets({"user", "port", "own"}, 2)},
     groups : {<<2, 0>> :> <<Plain(<<10, 2>>)>>
               @@ <<3, 0>> :> <<Plain(<<9, 1>>), Plain(<<1, 0>>)>>},
     asked : {<< >>, <<<<2, 0>>>>, <<<<3, 0>>>>}]

AllFiles == ParsedFiles \cup SelectedFiles \cup Nested \cup ListedFiles
=============================================================================
