---- MODULE MCMigrations ----
EXTENDS Migrations

\* A release; one that inserts a file before its only one; and one with a
\* later file more, in which the inserted file was edited after its release.
File(version, checksum) == [version |-> version, checksum |-> checksum]
MCChecksums == {"a", "a edited", "b", "c"}
MCReleases ==
  {{File(2, "b")},
   {File(1, "a"), File(2, "b")},
   {File(1, "a edited"), File(2, "b"), File(3, "c")}}
====
