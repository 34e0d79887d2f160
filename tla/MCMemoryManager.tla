-------------------------- MODULE MCMemoryManager --------------------------
(* Page tables, data and calls for checking MemoryManager.                  *)
EXTENDS MemoryManager

\* Three entries of a table at 0 and the first doublewords of two pages.
MCBacked == {{}, {3}, {4}, {12}, {13}}

Page(root, one, two) ==
  [d \in MCBacked |-> CASE d = {} -> root [] d = {3} -> one [] d = {4} -> two [] OTHER -> {}]

All == {V, R, W, X}

\* Tables that point at themselves, with a page of users at 4096 and one of the
\* supervisor at 8192; the same with frames of large pages, where no memory is; and
\* a page that may only be read and a table that is not there.
MCContents ==
  {Page({V}, All \cup {U, 12}, All \cup {13}),
   Page({V}, All \cup {U, 21}, All \cup {22}),
   Page({V}, {V, R, U, 13}, {V, 30})}

MCRoots == {{12}}
MCLeftRoots == {{}}
MCSettings == {Bare, 1, Sv39}
MCLeftCounts == {1}
MCLeftFlags == {[sum |-> FALSE, mxr |-> TRUE], [sum |-> TRUE, mxr |-> FALSE]}

Access(kind, lvl, width, vaddr, word) ==
  [kind |-> kind, level |-> lvl, width |-> width, vaddr |-> vaddr, word |-> word]

\* Through the last level and the one above, to each page; around the tables, to an
\* entry; in Bare mode too.
MCCalls ==
  {Access("Read", User, 8, {12}, {}),
   Access("Write", Supervisor, 8, {12}, {V, R, W, X, U, 13}),
   Access("Write", User, 4, {3, 12, 21}, {0}),
   Access("Fetch", User, 4, {13}, {}),
   Access("Read", Supervisor, 8, {22}, {}),
   Access("Write", Machine, 8, {3}, {V, R, W, X, 13}),
   Access("MappedRead", User, 1, {13}, {}),
   Access("MappedWrite", User, 8, {12}, {0})}
=============================================================================
