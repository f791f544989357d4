\* One request uploads and deletes one attachment.
CONSTANTS
    File = {f1}
    Request = {r1}
SPECIFICATION Spec
INVARIANTS DeletedWithFile
