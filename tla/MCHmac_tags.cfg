CONSTANTS
  Lengths = {0, 55, 56, 63, 64, 65}
  Message <- MCMessage
  Key <- MCKey
  Mailboxes <- MCMailboxes
SPECIFICATION HmacSpec
INVARIANTS PaddedAsFips NothingSkipped DigestIsFips TagIsHmac VerifiesIffSame
