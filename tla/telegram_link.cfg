SPECIFICATION LinkSpec
CONSTANTS
  code3 = code3
  Users = {"u1", "u2"}
  Chats = {"chatA", "chatB"}
  Codes = {code1, code2, code3, code4}
  Calls = {"linkA", "linkA2", "linkB", "unlinkA", "webUnlink", "webUnlink2", "invalidate"}
  CodeOwner <- MCCodeOwner
  CallKind <- MCCallKind
  CallChat <- MCCallChat
  CallUser <- MCCallUser
  None = None
  Expiring = {code3}
SYMMETRY CodeSymmetry
INVARIANT LinkTypeOK
INVARIANT CodeLinksOnce
INVARIANT ChatOfOneUser
PROPERTY OnlyStaleLinksPart
CHECK_DEADLOCK FALSE
