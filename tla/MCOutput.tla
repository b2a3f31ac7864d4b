------------------------------ MODULE MCOutput ------------------------------
(* An instance of Output: two files at the top and a directory that is not
   to be published with a file in it; archives at, within and past each limit,
   in several formats, safe and not. *)
EXTENDS Output

MCPaths == {"a", "b", "venv", "venv/c"}
MCParent == [p \in MCPaths |-> IF p = "venv/c" THEN "venv" ELSE "top"]

File(path, size, text) == [path |-> path, kind |-> "file", size |-> size, text |-> text]
Other(path, kind) == [path |-> path, kind |-> kind, size |-> 0, text |-> "t"]
Out(format, bytes, archive) ==
    [pages |-> <<{"source"}, {}, {"manifest"}>>, bytes |-> bytes, manifest_bytes |-> 2,
     manifest |-> TRUE, format |-> format, archive |-> archive]

Plain == Out("zip", 5, <<File("a", 2, "t"), File("venv/c", 1, "key"), File("b", 1, "u")>>)

MCOffers == {
    Plain,
    [Plain EXCEPT !.bytes = 6],
    [Plain EXCEPT !.manifest_bytes = 3],
    [Plain EXCEPT !.manifest = FALSE],
    [Plain EXCEPT !.pages = <<{"source"}>>],
    Out("tar", 3, <<File("a", 2, "t"), File("a", 2, "u"), File("venv/c", 1, "t")>>),
    Out("tar", 3, <<File("a", 1, "t"), Other("venv", "dir"), Other("venv", "dir"), File("b", 1, "t")>>),
    Out("tar", 3, <<File("a", 3, "t"), File("b", 3, "u")>>),
    Out("zip", 3, <<File("a", 1, "key")>>),
    Out("zip", 1, <<Other("venv", "dir"), Other("venv", "dir"), Other("venv", "dir"), File("a", 1, "t")>>),
    Out("tar", 1, <<File("b", 1, "t"), Other("a", "link")>>),
    Out("zip", 1, <<File("b", 1, "t"), File("outside", 1, "t")>>),
    Out("zip", 1, <<File("venv", 1, "t"), File("venv/c", 1, "t")>>)}
=============================================================================
