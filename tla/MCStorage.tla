----------------------------- MODULE MCStorage -----------------------------
\* Three callers race over two transactions while a third is refused; two requests
\* over two addresses, one in a reserved namespace; three entries; two processes
\* with two names; two clients on two connections.
EXTENDS Storage

Entry(path, linked, events) ==
  [path |-> path, linked |-> linked, events |-> events, slot |-> "slot"]

\* Two entries of a path in a batch, out of three; a save after every second entry.
MCEntries ==
  {Entry("metadata", TRUE, "good"), Entry("metadata", TRUE, "malformed"),
   Entry("metadata", FALSE, "good"), Entry("anchors", TRUE, "none")}

ASSUME StorageAssumption
=============================================================================
