----------------------------- MODULE MCShareStore -----------------------------
(* ShareStore on a small instance: interchangeable Shares, handlers and      *)
(* passes (safety only: Worker differs by its fairness alone), and states    *)
(* that differ only in values nothing reads any more counted once.           *)
EXTENDS ShareStoreRefinement, TLC

Symmetry ==
    Permutations(Shares) \union Permutations(Handlers) \union Permutations(Sweepers)

\* began is read while the upload lasts, mtime while a file exists, a
\* deletion's clock value never again by an admin, a pass's clock value after
\* the purge only as staleBefore.
View ==
    <<now, rows, meta, up, writer, stage, final, faults,
      [s \in Shares |-> IF s \in Transferring THEN began[s] ELSE 0],
      [s \in Shares |-> IF s \in stage \union final THEN mtime[s] ELSE 0],
      [h \in Handlers |-> IF handler[h].pc = "adminDelete"
                          THEN [handler[h] EXCEPT !.at = 0] ELSE handler[h]],
      [w \in Sweepers |->
          IF sweep[w].pc \in {"idle", "purge"} \/ sweep[w].at >= Grace
          THEN sweep[w] ELSE [sweep[w] EXCEPT !.at = 0]]>>
===============================================================================
