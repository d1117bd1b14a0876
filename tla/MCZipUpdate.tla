---------------------------- MODULE MCZipUpdate ----------------------------
(* Small archives for ZipUpdate. *)
EXTENDS ZipUpdate

File(sizes) == [kind |-> "file", sizes |-> sizes]
Old         == [kind |-> "old", sizes |-> <<>>]
Dir         == [kind |-> "dir", sizes |-> <<>>]

\* Files that need more memory than there is, another method that makes less or more,
\* and items between them that are not packed.
\* The last can be written to an archive without Seek.
Mixed == {<<File(<<3>>), File(<<3, 2>>), Dir, File(<<1>>)>>,
          <<Old, File(<<3>>), File(<<4>>), File(<<1, 2>>)>>,
          <<File(<<2>>), File(<<3>>), File(<<1>>)>>}
=============================================================================
