------------------------ MODULE MCMultipartUpload ------------------------
(* Instances of MultipartUpload for TLC. *)
EXTENDS MultipartUpload

Upload(kind, size, partSize, maxParts, attempts, chunks) ==
    [kind |-> kind, size |-> size, partSize |-> partSize, maxParts |-> maxParts,
     attempts |-> attempts, chunks |-> chunks]

\* One part at a time: a last part shorter than the others, a size that is a
\* multiple of the part's, one part only, and no part at all; with retries.
SerialUploads ==
    {Upload("fixed", 5, 2, 1, 2, {1, 2, 4}), Upload("fixed", 4, 2, 1, 2, {2}),
     Upload("fixed", 2, 3, 1, 2, {1, 4}), Upload("fixed", 0, 2, 1, 2, {1}),
     Upload("fixed", 3, 2, 1, 0, {1}), Upload("random", 5, 2, 1, 2, {2})}

\* More parts than the semaphore admits, two of them at a time.
ParallelUploads == {Upload(k, 3, 1, 2, 1, {1}) : k \in Kinds}

AllUploads == SerialUploads \cup ParallelUploads

SerialRandom == {Upload("random", 5, 2, 1, 1, {2})}

SerialFixed == {Upload("fixed", 4, 2, 1, 1, {2})}
=============================================================================
