---------------------------- MODULE MCVersionInfo ----------------------------
(* Files as linkers lay them out: the header, the sections, their names,   *)
(* the table with the header of the names last, or before another's.  One  *)
(* lacks a string, one the version number, one has it in another size, and *)
(* the headers of some are not what the reader accepts.                    *)
EXTENDS Dumpver, SequencesExt

MCInfoObjects == {"info", "a", "b"}
MCClients == {"a", "b"}
MCAddresses == 1 .. 5
MCCommandLines ==
    {<<>>, <<"FILE">>, <<"nofile">>, <<"-v", "FILE">>, <<"-x">>, <<"FILE", "-h">>,
     <<"FILE", "nofile">>, <<"", "FILE">>}

Header(shoff, shnum, shstrndx) ==
    <<Elf.MAG, Elf.CLASS64, Elf.DATA2LSB, Elf.CURRENT, Elf.DYN, Elf.CURRENT, shoff,
      Len(Ehdr), PhdrSize, Len(Shdr), shnum, shstrndx>>

Text == 90          \* the name of a section that is not ours
Strtab == 91        \* the name of the section of names
DataOf(sections) == [i \in DOMAIN sections |-> sections[i].data]
Offset(sections, i) == Len(Ehdr) + Len(FlattenSeq(DataOf(SubSeq(sections, 1, i - 1))))

\* The cells of a file with these sections; after: headers behind the names'.
Layout(sections, after) ==
    LET names == <<0>> \o [i \in DOMAIN sections |-> sections[i].name] \o <<Strtab>>
        at == Offset(sections, Len(sections) + 1)
        Entry(i) == <<i, 1, Offset(sections, i), Len(sections[i].data), 1>>
        entries == [i \in DOMAIN sections |-> Entry(i)]
        its == <<Len(sections) + 1, Elf.STRTAB, at, Len(names), 1>>
        first == SubSeq(entries, 1, Len(entries) - after)
        table == FlattenSeq(first \o <<its>> \o SubSeq(entries, Len(first) + 1, Len(entries)))
    IN  Header(at + Len(names), Len(sections) + 1, Len(first))
        \o FlattenSeq(DataOf(sections)) \o names \o table

Ours == Embedded(<<<<21>>, <<22>>, <<23>>, <<24, 25>>, <<26>>>>, 1, 2, 289)
Said(k) == IF k = VersionNum THEN Ours[k] ELSE Front(Ours[k])
SectionsOf(ks, order) ==
    <<[name |-> Text, data |-> <<7>>]>> \o
    [i \in DOMAIN SelectSeq(order, LAMBDA k : k \in ks) |->
        LET k == SelectSeq(order, LAMBDA j : j \in ks)[i] IN [name |-> k, data |-> Ours[k]]]
File(ks, order, after) ==
    [cells |-> Layout(SectionsOf(ks, order), after),
     says |-> [k \in DOMAIN Sections |-> IF k \in ks THEN Said(k) ELSE <<>>]]

Whole == File(1 .. 6, <<1, 2, 3, 4, 5, 6>>, 0)
MCFiles ==
    {Whole, File(1 .. 6, <<6, 5, 4, 3, 2, 1>>, 1),
     File({1, 2, 4, 5, 6}, <<6, 1, 2, 3, 4, 5>>, 2), File(1 .. 5, <<1, 2, 3, 4, 5>>, 0)}
    \cup {[Whole EXCEPT !.cells[i] = 9] : i \in {2, 5}}
    \cup {[Whole EXCEPT !.cells[Len(Whole.cells) - 6] = NumSize - 1]}
\* A file is seen at lengths inside its header and inside the last two of its
\* section headers, at a few between, and whole.
MCLengths(n) == {k \in 0 .. n : k \in {0, 10, 12, 40} \/ k >= n - 7}
=============================================================================
