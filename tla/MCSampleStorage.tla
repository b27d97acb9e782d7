--------------------------- MODULE MCSampleStorage ---------------------------
(* Instances of SampleStorage for TLC. *)
EXTENDS SampleStorage

CONSTANTS u1, u2, u3, a1, e1, b1, b2, b3

TheBlobs   == {b1, b2, b3}
TheDirect  == {u1, u2, u3, a1}
TheParent  == [e \in {e1} |-> a1]
TheContent == [u \in {u1, u2, u3, a1, e1} |-> IF u = a1 THEN b2 ELSE b1]
TheLeases  == [u \in {u1, u2, u3, a1, e1} |-> IF u = u1 THEN 2 ELSE 0]
TheNested  == [u \in {u1} |-> b3]

Plan(done, sent, tries) == [done |-> done, sent |-> sent, tries |-> tries]

\* An upload with its task; two uploads of one content; an archive; an archive
\* with a member that has the content of an upload.
OneUpload  == {Plan({}, {u1}, 1)}
TwoUploads == {Plan({}, {u2, u3}, 1)}
OneArchive == {Plan({a1}, {}, 2)}
BriefArchive == {Plan({a1}, {}, 1)}
ArchiveAndUpload == {Plan({a1}, {u2}, 1)}
StoragePlans == OneUpload \cup TwoUploads \cup OneArchive \cup ArchiveAndUpload

\* Bound: an upload that meets an archive does not expire.
Unhurried == \A u \in Direct \ Archive :
    upload[u].late => \A a \in Archive : upload[a].status = "absent"
=============================================================================
