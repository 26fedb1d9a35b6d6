------------------------------ MODULE HostFile ------------------------------
(***************************************************************************)
(* src/host.rs: what a host file declares, and which of its Hosts a run    *)
(* touches.  The run keeps one record per Host name (the Children of       *)
(* src/interrupt.rs, the passwords of src/privilege.rs), so everything     *)
(* else relies on what is decided here: each name once, and no Host that   *)
(* nobody asked for.                                                       *)
(*                                                                         *)
(* A word is a pair <<n, w>>: for w > 0 the number n written in w digits,  *)
(* around one fixed prefix and suffix; for w = 0 a word without a number.  *)
(* A name (of an entry, or a selector) is a word, or the items of its      *)
(* bracketed range.  A Host's fields are a function of those its entry     *)
(* sets; their values are numbers, and 0 is a user no ssh can be given.    *)
(***************************************************************************)
EXTENDS Integers, FiniteSets, SequencesExt

CONSTANTS
    Files,          \* the host files, each with the -g values of a run
    MaxExpansion,   \* MAX_EXPANSION
    MaxBound        \* u32::MAX

ASSUME MaxExpansionAssumption == MaxExpansion \in Nat \ {0}
ASSUME MaxBoundAssumption == MaxBound \in Nat

Words == Nat \X Nat
WrittenNames == [word : Words, items : Seq([low : Words, high : Words])]

Columns == <<"host", "user", "port", "ip", "own">>

\* What TOML and the parser of a name let through, and no less.
ASSUME FilesAssumption ==
    \A f \in Files :
        /\ DOMAIN f.entries = 1..Len(f.entries) /\ Len(f.entries) \in Nat
        /\ \A k \in 1..Len(f.entries) :
               /\ f.entries[k].name \in WrittenNames
               /\ DOMAIN f.entries[k].fields \subseteq ToSet(Columns) \ {"host"}
        /\ IsFiniteSet(DOMAIN f.groups)
        /\ DOMAIN f.groups \subseteq Words
        /\ f.groups \in [DOMAIN f.groups -> Seq(WrittenNames)]
        /\ f.asked \in Seq(Words)

VARIABLES
    file,           \* [entries, groups, asked]
    hosts,          \* HostFile.hosts, once the file is parsed
    selected        \* what `select` answered

vars == <<file, hosts, selected>>

\* A result: not there yet, an error (the run is a local failure), or a list.
Pending == [state |-> "pending", list |-> << >>]
Err == [state |-> "err", list |-> << >>]
Ok(list) == [state |-> "ok", list |-> list]

ALL == <<0, 0>>

\* Text that validate_name refuses, and a user that validate_user does.
NotAName == <<1, 9>>
NotAUser == 0

Named(list) == {host.name : host \in ToSet(list)}

Init ==
    /\ file \in Files
    /\ hosts = Pending
    /\ selected = Pending

-----------------------------------------------------------------------------
(* expand: the Hosts of a bracketed range *)

Digits(n) ==
    IF n = 0 THEN 1 ELSE CHOOSE d \in 1..10 : 10^(d-1) <= n /\ n < 10^d

\* A number keeps the digits it needs, and is padded to the lower bound's.
Render(n, width) == <<n, IF width > Digits(n) THEN width ELSE Digits(n)>>

\* A bound is a u32: a number with more digits is refused.
parse_bound(bound) == bound[1] <= MaxBound

Size(item) == item.high[1] - item.low[1] + 1

ItemNames(item) ==
    [k \in 1..Size(item) |-> Render(item.low[1] + k - 1, item.low[2])]

\* A slip: the Hosts of an item are counted in the width of its bounds.
TooManyInU32(total, item) == total + (Size(item) % (MaxBound + 1)) > MaxExpansion

\* The whole list of items is counted, before a name is made of it.
TooMany(total, item) == total + Size(item) > MaxExpansion

TakeItem(acc, item) ==
    IF \/ acc.state = "err"
       \/ ~parse_bound(item.low) \/ ~parse_bound(item.high)
       \/ Size(item) < 1
       \/ TooMany(Len(acc.list), item)
    THEN Err
    ELSE Ok(acc.list \o ItemNames(item))

IsPattern(name) == name.items # << >>

expand(name) ==
    IF IsPattern(name) THEN FoldLeft(TakeItem, Ok(<< >>), name.items)
    ELSE Ok(<<name.word>>)

-----------------------------------------------------------------------------
(* parse: the Hosts of the file, in its order *)

\* A slip: a name is only looked for in the entries before its own.
DeclareUnlessEarlier(acc, names, fields) ==
    IF acc.state = "err" \/ Named(acc.list) \cap ToSet(names) # {}
    THEN Err
    ELSE Ok(acc.list \o [k \in DOMAIN names |->
                             [name |-> names[k], fields |-> fields]])

DeclareHost(acc, host) ==
    IF acc.state = "err" \/ host.name = NotAName \/ host.name \in Named(acc.list)
    THEN Err
    ELSE Ok(Append(acc.list, host))

\* The names of one entry join the declared ones, each of them new, and each
\* with all that the entry sets.
Declare(acc, names, fields) ==
    FoldLeft(DeclareHost, acc,
             [k \in DOMAIN names |-> [name |-> names[k], fields |-> fields]])

Sets(fields, field) == field \in DOMAIN fields

TakeEntry(acc, entry) ==
    LET expanded == expand(entry.name)
    IN  IF \/ acc.state = "err"
           \/ Sets(entry.fields, "user") /\ entry.fields["user"] = NotAUser
           \/ Sets(entry.fields, "ip") /\ IsPattern(entry.name)
           \/ expanded.state = "err"
        THEN Err ELSE Declare(acc, expanded.list, entry.fields)

parse ==
    IF ALL \in DOMAIN file.groups THEN Err
    ELSE FoldLeft(TakeEntry, Ok(<< >>), file.entries)

Parse ==
    /\ hosts = Pending
    /\ hosts' = parse
    /\ UNCHANGED <<file, selected>>

-----------------------------------------------------------------------------
(* select: the Hosts of the groups asked for *)

Declared == Named(hosts.list)

NamesGroup(selector) ==
    ~IsPattern(selector) /\ selector.word \in DOMAIN file.groups

match_selector(selector) == ToSet(expand(selector).list) \cap Declared

\* What a group adds up to; `visiting` is the path of groups that led to it.
Found(names, visiting) == [ok |-> TRUE, names |-> names, visiting |-> visiting]
NotFound(visiting) == [ok |-> FALSE, names |-> {}, visiting |-> visiting]

\* A slip: a group is left on the path once it has been expanded.
StayOn(path) == path

LeaveGroup(path) == Front(path)

\* One selector of a group; `expanded` is what a call of expand_group answers.
TakeSelector(expanded, acc, selector) ==
    IF ~acc.ok THEN acc
    ELSE LET below == IF NamesGroup(selector)
                      THEN expanded[<<selector.word, acc.visiting>>]
                      ELSE Found(match_selector(selector), acc.visiting)
         IN  IF ~below.ok \/ (~NamesGroup(selector) /\ below.names = {})
             THEN NotFound(acc.visiting)
             ELSE Found(acc.names \cup below.names, below.visiting)

TakeSelectors(expanded, group, path) ==
    FoldLeft(LAMBDA acc, selector : TakeSelector(expanded, acc, selector),
             Found({}, path), file.groups[group])

ExpandGroup(expanded, group, path) ==
    IF group = ALL THEN Found(Declared, path)
    ELSE IF group \notin DOMAIN file.groups \/ Contains(path, group)
         THEN NotFound(path)
    ELSE LET below == TakeSelectors(expanded, group, Append(path, group))
         IN  IF below.ok THEN Found(below.names, LeaveGroup(below.visiting))
             ELSE below

expand_group[call \in Words \X Seq(Words)] ==
    ExpandGroup(expand_group, call[1], call[2])

\* The Hosts of a list that are wanted, in its order.
Keep(list, wanted) ==
    FoldLeft(LAMBDA kept, host :
                 IF host.name \in wanted THEN Append(kept, host) ELSE kept,
             << >>, list)

\* A run that asks for no group is of every Host; several groups are a union,
\* in the order of the file.
select ==
    LET found == {expand_group[<<g, << >>>>] : g \in ToSet(file.asked)}
    IN  IF file.asked = << >> THEN hosts
        ELSE IF \E f \in found : ~f.ok THEN Err
        ELSE Ok(Keep(hosts.list, UNION {f.names : f \in found}))

Select ==
    /\ hosts.state = "ok"
    /\ selected = Pending
    /\ selected' = select
    /\ UNCHANGED <<file, hosts>>

Answered ==
    /\ hosts.state = "err" \/ selected # Pending
    /\ UNCHANGED vars

Next == Parse \/ Select \/ Answered

Spec == Init /\ [][Next]_vars

-----------------------------------------------------------------------------
(* list: the selected Hosts as a table (src/run/list.rs) *)

\* A column is shown when some Host fills it.
Shows(list, column) ==
    column = "host" \/ \E host \in ToSet(list) : Sets(host.fields, column)

Headers(list) ==
    FoldLeft(LAMBDA headers, column :
                 IF Shows(list, column) THEN Append(headers, column) ELSE headers,
             << >>, Columns)

\* "-" is the cell of a Host that does not set what the column is about.
Cell(host, column) ==
    IF column = "host" THEN host.name
    ELSE IF Sets(host.fields, column) THEN <<column, host.fields[column]>>
    ELSE <<"-">>

\* A slip: a Host's row has the cells it fills.
CellsItFills(host, list) ==
    FoldLeft(LAMBDA row, column :
                 IF column = "host" \/ Sets(host.fields, column)
                 THEN Append(row, Cell(host, column)) ELSE row,
             << >>, Columns)

\* The cells are pushed one by one, under the conditions of the headers.
Cells(host, list) ==
    FoldLeft(LAMBDA row, column :
                 IF Shows(list, column) THEN Append(row, Cell(host, column)) ELSE row,
             << >>, Columns)

\* `table`, without its header.
Rows(list) == [k \in DOMAIN list |-> Cells(list[k], list)]

-----------------------------------------------------------------------------
(* What the file says, without an order of evaluation *)

\* The places in which a name stands for a Host: the numbers of its items.
Places(name) ==
    IF IsPattern(name)
    THEN UNION {{<<i, n>> : n \in name.items[i].low[1]..name.items[i].high[1]} :
                i \in DOMAIN name.items}
    ELSE {<<0, 0>>}

NameAt(name, place) ==
    IF IsPattern(name) THEN Render(place[2], name.items[place[1]].low[2])
    ELSE name.word

Declares(name) == {NameAt(name, place) : place \in Places(name)}

WellFormed(entry) ==
    /\ IsPattern(entry.name) => ~Sets(entry.fields, "ip")
    /\ Sets(entry.fields, "user") => entry.fields["user"] # NotAUser
    /\ NotAName \notin Declares(entry.name)
    /\ \A item \in ToSet(entry.name.items) :
           item.low[1] <= item.high[1] /\ item.high[1] <= MaxBound
    /\ Cardinality(Places(entry.name)) <= MaxExpansion

\* No name stands in two places of the file.
NamedOnce ==
    \A k, l \in DOMAIN file.entries :
        \A p \in Places(file.entries[k].name), q \in Places(file.entries[l].name) :
            NameAt(file.entries[k].name, p) = NameAt(file.entries[l].name, q)
                => k = l /\ p = q

\* The groups reached from some groups: in every set that holds those and the
\* groups its own members name.
Names(group) == {s.word : s \in {t \in ToSet(file.groups[group]) : NamesGroup(t)}}
Reached(from) ==
    {g \in DOMAIN file.groups :
        \A S \in SUBSET DOMAIN file.groups :
            from \cap DOMAIN file.groups \subseteq S
            /\ (\A s \in S : Names(s) \subseteq S) => g \in S}

Picks(group) == {s \in ToSet(file.groups[group]) : ~NamesGroup(s)}

\* Every Host is declared once, whichever entries and paddings its name comes
\* from, with what its own entry sets; none is lost, no group takes the name of
\* all of them, and a file that cannot say so is refused.
LoadedAsDeclared ==
    LET all == UNION {Declares(e.name) : e \in ToSet(file.entries)}
        fine == /\ ALL \notin DOMAIN file.groups
                /\ NamedOnce
                /\ \A e \in ToSet(file.entries) : WellFormed(e)
    IN  /\ hosts.state = "ok" => /\ fine
                                 /\ Declared = all
                                 /\ Len(hosts.list) = Cardinality(all)
                                 /\ \A host \in ToSet(hosts.list) :
                                        \E e \in ToSet(file.entries) :
                                            /\ host.name \in Declares(e.name)
                                            /\ host.fields = e.fields
        /\ hosts.state = "err" => ~fine

\* A run touches the Hosts its groups reach and no other, each once and in the
\* order of the file.  It is refused for a group nobody declared, for a cycle
\* and for a selector that picks nothing, and for nothing else: two groups that
\* share a third are no cycle.
SelectsWhatWasAsked ==
    LET asked == ToSet(file.asked)
        reached == Reached(asked)
        picked == UNION {match_selector(s) : s \in UNION {Picks(g) : g \in reached}}
        fine == /\ asked \subseteq DOMAIN file.groups \cup {ALL}
                /\ \A g \in reached : g \notin Reached(Names(g))
                /\ \A g \in reached : \A s \in Picks(g) : match_selector(s) # {}
    IN  /\ selected.state = "ok" =>
               /\ fine
               /\ Named(selected.list) =
                      IF asked = {} \/ ALL \in asked THEN Declared ELSE picked
               /\ \A i, j \in 1..Len(selected.list) : i < j =>
                      \E k, l \in 1..Len(hosts.list) :
                          /\ k < l
                          /\ selected.list[i] = hosts.list[k]
                          /\ selected.list[j] = hosts.list[l]
        /\ selected.state = "err" => ~fine

\* In the listing of a selection, whatever fields its Hosts set, the n-th row is
\* the n-th Host a run would touch, each of its fields stands under the header
\* of that name, and no field of any Host is missing from the table.
ListedUnderItsHeader ==
    LET list == selected.list
        headers == Headers(list)
    IN  selected.state = "ok" =>
            \A n \in 1..Len(list) :
                /\ Len(Rows(list)[n]) = Len(headers)
                /\ Rows(list)[n][1] = list[n].name
                /\ \A k \in 2..Len(headers) :
                       Rows(list)[n][k] =
                           IF Sets(list[n].fields, headers[k])
                           THEN <<headers[k], list[n].fields[headers[k]]>>
                           ELSE <<"-">>
                /\ DOMAIN list[n].fields \subseteq ToSet(headers)
=============================================================================
