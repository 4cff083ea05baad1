SPECIFICATION MCSpec
CONSTANTS
  daily = daily
  weekly = weekly
  back = back
  aws = aws
  minio = minio
  plain = plain
  enc = enc
  Uploaders = {daily, weekly}
  Downloaders = {back}
  Stores = {aws, minio}
  Names = {plain, enc}
  NoEndpoint = {aws}
  Retries = 1
  StoreFaults = {"disk", "close", "request", "lost"}
  Extensions <- MCExtensions
  StoreOf <- MCStoreOf
  NameOf <- MCNameOf
  Server <- MCServer
  Folder <- MCFolder
  Settings <- MCSettings
  Trusts <- MCTrusts
  Present <- MCPresent
INVARIANTS
  StoreTypeOK
  FailsForCause
  UploadedIsStored
  LoadsWhole
