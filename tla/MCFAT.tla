------------------------------- MODULE MCFAT -------------------------------
(* Instances of FAT for TLC. *)
EXTENDS FAT

\* Two unsafe states that differ only in texts count as one: no property looks at the
\* texts, and no action reads them, until format has emptied the directory, and a
\* file created then has no size before it is saved.
TextsMatter ==
    <<formatted, link, dir, memory, lost, unsafe,
      IF unsafe THEN <<>> ELSE <<data, saved>>>>
=============================================================================
