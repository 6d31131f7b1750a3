-------------------------------- MODULE Keys --------------------------------
(* Keys of configuration items: protocol.rs, store.rs.  A key is a sequence *)
(* of names and of the separators ":" and ".", no two names in a row.       *)
EXTENDS Sequences

Separators == {":", "."}

\* ConfigItem::composed_key: group:key, or key alone.
ComposedKey(group, key) ==
    IF group = <<>> THEN key ELSE group \o <<":">> \o key

\* The parts of a key: ":" reads as ".", empty parts are left out.
Path(key) == SelectSeq(key, LAMBDA token : token \notin Separators)
=============================================================================
