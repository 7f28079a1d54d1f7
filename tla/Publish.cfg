CONSTANTS
  Mention <- MCMention
  CikOf <- MCCikOf
  ItemOf <- MCItemOf
  Stated <- MCStated
  ShardOf <- MCShardOf
  Linked <- MCLinked
  Answers <- MCAnswers
  FirstMentions <- MCFirst
  ChangeHalfMatched = FALSE
  MaxChanges = 2
  MaxTroubles = 2
  Late <- MCLate
SPECIFICATION FairSpec
INVARIANTS
  SkippedCiksAreCurrent
  PointedGenerationsExist
  SkippedPublishIsCurrent
  PublishedTablesAgree
PROPERTIES
  RemintsFinish
  PublishedIdsLeadOn
  EverythingIsPublished
CHECK_DEADLOCK FALSE
